---- MODULE Spec2Model ----
(***************************************************************************)
(* Model of the AI-HRMS backend: the PostgreSQL tables and their           *)
(* constraints (migrations), the employee / task / auth controllers and    *)
(* the productivity, trend and assignment services.                        *)
(*                                                                         *)
(* Units: time is counted in whole hours; scores and the stored factors    *)
(* are DECIMAL(.,2) columns and are kept as integers in hundredths.        *)
(* Columns that no query of the modelled code reads (name, title,          *)
(* description, due_date, wallet_address, updated_at, last_activity_at,    *)
(* message, is_read) are left out of the rows.                             *)
(***************************************************************************)
EXTENDS Integers, Sequences, FiniteSets, TLC

\* ------------------------------------------------------------------ bounds
MaxOrgs == 2
MaxEmployees == 2
MaxTasks == 1
MaxScores == 2
MaxNow == 2
MaxHistory == 2
MaxPermuted == 3
MaxInflight == 2

OrgIds == 1..MaxOrgs
EmployeeIds == 1..MaxEmployees
TaskIds == 1..MaxTasks

\* ---------------------------------------------------------------- domains
NULL == -1
\* the clock value at Init, in hours
Epoch == 4800
Statuses == {"assigned", "in_progress", "completed"}
StatusInputs == Statuses \cup {"invalid_status"}
Complexities == {"low", "medium", "high"}
RawEmails == {"a@x.io", "A@x.io", "b@x.io"}
RequestComplexities == {"low", "high"}
Departments == {"Engineering"}
Roles == {"Developer"}
SkillSets == {{"Python"}}

VARIABLES
  organizations,        \* rows of table organizations
  employees,            \* rows of table employees
  tasks,                \* rows of table tasks
  productivity_scores,  \* rows of table productivity_scores
  notifications,        \* rows of table notifications
  role_requirements,    \* rows of table role_requirements
  seq,                  \* number of ids handed out so far, per table
  now,                  \* NOW() / new Date(), in hours
  inflight,             \* requests suspended at an await, per connection
  last                  \* the response of the latest request

vars == <<organizations, employees, tasks, productivity_scores, notifications,
          role_requirements, seq, now, inflight, last>>
tables == <<organizations, employees, tasks, productivity_scores, notifications>>

\* ------------------------------------------------------------ small helpers
Max(a, b) == IF a >= b THEN a ELSE b
Min(a, b) == IF a <= b THEN a ELSE b

\* the element of a set of one element; {e : x \in {v}} gives x the value v
Only(S) == CHOOSE x \in S : TRUE

RECURSIVE SumF(_, _)
SumF(f, S) == Only({IF T = {} THEN 0
                    ELSE Only({f[x] + SumF(f, T \ {x}) : x \in {Only(T)}}) : T \in {S}})

RECURSIVE Gcd(_, _)
Gcd(a, b) == Only({IF y = 0 THEN x ELSE Gcd(y, x % y) : x \in {a}, y \in {b}})

\* COALESCE($n, column): an absent request field ({}) keeps the column
Coalesce(opt, cur) == IF opt = {} THEN cur ELSE CHOOSE v \in opt : TRUE

\* express-validator normalizeEmail(): the address is lower-cased
NormalizeEmail(raw) == IF raw = "A@x.io" THEN "a@x.io" ELSE raw

\* the response of a request; touched = organization_id of every row the
\* request returned, wrote, deleted or assigned work to; request = the
\* arguments of a recommendation request
Resp(op, org, code, touched) ==
  [op |-> op, org |-> org, code |-> code, touched |-> touched,
   emp |-> 0, id |-> 0, status |-> "", computed |-> {}, result |-> {},
   failed |-> {}, listed |-> {}, fail |-> "none", request |-> <<>>]

\* ------------------------------------------------- authentication middleware
\* a token is the organizationId of its payload; 0 stands for a missing,
\* malformed or expired token
Tokens == {0} \cup OrgIds
authenticateToken(token) == IF token = 0 THEN {} ELSE {token}

\* --------------------------------------------------------- database layer
OrgExists(o) == \E r \in organizations : r.id = o
EmployeeExists(e) == \E r \in employees : r.id = e
OrgsOfEmployees(ids) == {r.organization_id : r \in {x \in employees : x.id \in ids}}

\* mutant: organizations.email without UNIQUE
UniqueOrgEmail_Absent(rows, email) == TRUE

\* organizations.email UNIQUE
UniqueOrgEmail(rows, email) == \A r \in rows : r.email # email

\* employees: UNIQUE(organization_id, email); self is the row being updated
UniqueEmployeeEmail(rows, self, org, email) ==
  \A r \in rows : r.id # self => ~(r.organization_id = org /\ r.email = email)

\* employees.organization_id REFERENCES organizations(id)
EmployeeFK(org) == OrgExists(org)

\* tasks.organization_id REFERENCES organizations(id),
\* tasks.assigned_to REFERENCES employees(id)
TaskFK(org, emp) == OrgExists(org) /\ EmployeeExists(emp)

\* notifications: both foreign keys
NotificationFK(org, emp) == OrgExists(org) /\ EmployeeExists(emp)

\* productivity_scores: both foreign keys
ScoreFK(org, emp) == OrgExists(org) /\ EmployeeExists(emp)

\* CHECK (score >= 0 AND score <= 100), in hundredths
ScoreCheck(score) == score >= 0 /\ score <= 10000

\* UNIQUE INDEX idx_productivity_unique (employee_id, calculated_at)
ScoreUnique(rows, emp, at) ==
  \A r \in rows : ~(r.employee_id = emp /\ r.calculated_at = at)

\* mutant: tasks.assigned_to without ON DELETE CASCADE
TasksAfterEmployeeDelete_NoCascade(rows, gone) == rows

\* ON DELETE CASCADE from employees(id)
TasksAfterEmployeeDelete(rows, gone) == {t \in rows : t.assigned_to \notin gone}
ScoresAfterEmployeeDelete(rows, gone) == {s \in rows : s.employee_id \notin gone}
NotificationsAfterEmployeeDelete(rows, gone) == {n \in rows : n.employee_id \notin gone}

\* ON DELETE CASCADE from organizations(id): the rows of the organization and
\* the rows that reference one of its employees
EmployeesOfOrg(o) == {e.id : e \in {x \in employees : x.organization_id = o}}
TasksAfterOrgDelete(rows, o) ==
  {t \in TasksAfterEmployeeDelete(rows, EmployeesOfOrg(o)) : t.organization_id # o}
ScoresAfterOrgDelete(rows, o) ==
  {s \in ScoresAfterEmployeeDelete(rows, EmployeesOfOrg(o)) : s.organization_id # o}
NotificationsAfterOrgDelete(rows, o) ==
  {n \in NotificationsAfterEmployeeDelete(rows, EmployeesOfOrg(o)) : n.organization_id # o}

\* BEFORE UPDATE trigger set_task_completed_at
set_task_completed_at(old, new) ==
  IF new.status = "completed" /\ old.status # "completed"
  THEN [new EXCEPT !.completed_at = now]
  ELSE new

\* ------------------------------------------------------ TaskStatusService
validTransitions ==
  [assigned |-> {"in_progress", "completed"},
   in_progress |-> {"completed"},
   completed |-> {}]

\* mutant: the table is not consulted
isValidTransition_AnyChange(currentStatus, newStatus) == TRUE

isValidTransition(currentStatus, newStatus) ==
  IF currentStatus = newStatus THEN TRUE
  ELSE newStatus \in validTransitions[currentStatus]

isValidStatus(status) == status \in {"assigned", "in_progress", "completed"}

\* express-validator updateStatusValidation
updateStatusValidation(status) == status \in {"assigned", "in_progress", "completed"}

\* ------------------------------------------------------------- row shapes
EmployeeRow(id, org, email, role, department, skills) ==
  [id |-> id, organization_id |-> org, email |-> email, role |-> role,
   department |-> department, skills |-> skills, is_active |-> TRUE]

TaskRow(id, org, assignedTo, complexity) ==
  [id |-> id, organization_id |-> org, assigned_to |-> assignedTo,
   status |-> "assigned", complexity |-> complexity,
   created_at |-> now, completed_at |-> NULL]

NotificationRow(org, emp, type) ==
  [organization_id |-> org, employee_id |-> emp, type |-> type]

\* ---------------------------------------------------- EmployeeController
\* SELECT id FROM employees WHERE organization_id = $1 AND email = $2
EmployeeByEmail(org, email) ==
  {e \in employees : e.organization_id = org /\ e.email = email}

\* mutant: the employee is looked up by id alone
EmployeeInOrg_AnyOrg(id, org) == {e \in employees : e.id = id}

\* SELECT ... FROM employees WHERE id = $1 AND organization_id = $2
EmployeeInOrg(id, org) ==
  {e \in employees : e.id = id /\ e.organization_id = org}

\* the INSERT of EmployeeController.create and its response
EmployeeInsert(org, email, role, department, skills) ==
  IF EmployeeFK(org) /\ UniqueEmployeeEmail(employees, 0, org, email)
  THEN /\ seq.employees < MaxEmployees
       /\ employees' = employees \cup
            {EmployeeRow(seq.employees + 1, org, email, role, department, skills)}
       /\ seq' = [seq EXCEPT !.employees = @ + 1]
       /\ last' = Resp("EmployeeCreate", org, "201", {org})
  ELSE /\ last' = Resp("EmployeeCreate", org, "500", {})
       /\ UNCHANGED <<employees, seq>>

EmployeeCreate ==
  \E token \in Tokens, raw \in RawEmails, role \in Roles,
     department \in Departments, skills \in SkillSets :
    \E org \in authenticateToken(token) :
      LET email == NormalizeEmail(raw)
          existing == EmployeeByEmail(org, email)
      IN /\ IF existing # {}
            THEN /\ last' = Resp("EmployeeCreate", org, "409", {})
                 /\ UNCHANGED <<employees, seq>>
            ELSE EmployeeInsert(org, email, role, department, skills)
         /\ UNCHANGED <<organizations, tasks, productivity_scores,
                        notifications, now, inflight, role_requirements>>

EmployeeList ==
  \E token \in Tokens :
    \E org \in authenticateToken(token) :
      LET rows == {e \in employees : e.organization_id = org}
      IN /\ last' = Resp("EmployeeList", org, "200", {e.organization_id : e \in rows})
         /\ UNCHANGED <<tables, seq, now, inflight, role_requirements>>

EmployeeGetOne ==
  \E token \in Tokens, id \in EmployeeIds :
    \E org \in authenticateToken(token) :
      LET rows == EmployeeInOrg(id, org)
      IN /\ last' = Resp("EmployeeGetOne", org, IF rows = {} THEN "404" ELSE "200",
                         {e.organization_id : e \in rows})
         /\ UNCHANGED <<tables, seq, now, inflight, role_requirements>>

\* the UPDATE of EmployeeController.update and its response
EmployeeUpdateWrite(org, id, email, skills, isActive) ==
  LET rows == EmployeeInOrg(id, org)
      new(e) == [e EXCEPT !.email = Coalesce(email, @),
                          !.skills = Coalesce(skills, @),
                          !.is_active = Coalesce(isActive, @)]
  IN IF \A e \in rows : UniqueEmployeeEmail(employees, e.id, org, new(e).email)
     THEN /\ employees' = (employees \ rows) \cup {new(e) : e \in rows}
          /\ last' = Resp("EmployeeUpdate", org, IF rows = {} THEN "500" ELSE "200",
                          {e.organization_id : e \in rows})
     ELSE /\ last' = Resp("EmployeeUpdate", org, "500", {})
          /\ UNCHANGED employees

\* EmployeeController.update for requests whose email and skills fields are
\* taken from rawEmails and skillSets
EmployeeUpdateWith(rawEmails, skillSets) ==
  \E token \in Tokens, id \in EmployeeIds,
     rawEmail \in {{}} \cup {{r} : r \in rawEmails},
     skills \in {{}} \cup {{s} : s \in skillSets},
     isActive \in {{}, {TRUE}, {FALSE}} :
    \E org \in authenticateToken(token) :
      LET email == {NormalizeEmail(r) : r \in rawEmail}
      IN /\ IF EmployeeInOrg(id, org) = {}
            THEN /\ last' = Resp("EmployeeUpdate", org, "404", {})
                 /\ UNCHANGED employees
            ELSE EmployeeUpdateWrite(org, id, email, skills, isActive)
         /\ UNCHANGED <<organizations, tasks, productivity_scores,
                        notifications, seq, now, inflight, role_requirements>>

EmployeeUpdate == EmployeeUpdateWith(RawEmails, SkillSets)

EmployeeDelete ==
  \E token \in Tokens, id \in EmployeeIds :
    \E org \in authenticateToken(token) :
      LET rows == EmployeeInOrg(id, org)
          gone == {e.id : e \in rows}
      IN /\ employees' = employees \ rows
         /\ tasks' = TasksAfterEmployeeDelete(tasks, gone)
         /\ productivity_scores' = ScoresAfterEmployeeDelete(productivity_scores, gone)
         /\ notifications' = NotificationsAfterEmployeeDelete(notifications, gone)
         /\ last' = Resp("EmployeeDelete", org, IF rows = {} THEN "404" ELSE "200",
                         {e.organization_id : e \in rows})
         /\ UNCHANGED <<organizations, seq, now, inflight, role_requirements>>

\* -------------------------------------------------------- TaskController
\* SELECT ... FROM tasks WHERE id = $1 AND organization_id = $2
TaskInOrg(id, org) == {t \in tasks : t.id = id /\ t.organization_id = org}

TaskCreate ==
  \E token \in Tokens, assignedTo \in EmployeeIds, complexity \in RequestComplexities :
    \E org \in authenticateToken(token) :
      /\ IF EmployeeInOrg(assignedTo, org) = {}
         THEN /\ last' = Resp("TaskCreate", org, "404", {})
              /\ UNCHANGED <<tasks, notifications, seq>>
         ELSE IF ~TaskFK(org, assignedTo)
         THEN /\ last' = Resp("TaskCreate", org, "500", {})
              /\ UNCHANGED <<tasks, notifications, seq>>
         ELSE /\ seq.tasks < MaxTasks
              /\ tasks' = tasks \cup {TaskRow(seq.tasks + 1, org, assignedTo, complexity)}
              /\ seq' = [seq EXCEPT !.tasks = @ + 1]
              /\ IF NotificationFK(org, assignedTo)
                 THEN /\ notifications' = notifications \cup
                           {NotificationRow(org, assignedTo, "task_assigned")}
                      /\ last' = Resp("TaskCreate", org, "201",
                                      {org} \cup OrgsOfEmployees({assignedTo}))
                 ELSE /\ UNCHANGED notifications
                      /\ last' = Resp("TaskCreate", org, "500",
                                      {org} \cup OrgsOfEmployees({assignedTo}))
      /\ UNCHANGED <<organizations, employees, productivity_scores, now, inflight, role_requirements>>

\* JOIN employees e ON t.assigned_to = e.id WHERE t.organization_id = $1
TaskList ==
  \E token \in Tokens :
    \E org \in authenticateToken(token) :
      LET rows == {t \in tasks : t.organization_id = org /\ EmployeeExists(t.assigned_to)}
      IN /\ last' = Resp("TaskList", org, "200",
                         {t.organization_id : t \in rows} \cup
                         OrgsOfEmployees({t.assigned_to : t \in rows}))
         /\ UNCHANGED <<tables, seq, now, inflight, role_requirements>>

TaskGetOne ==
  \E token \in Tokens, id \in TaskIds :
    \E org \in authenticateToken(token) :
      LET rows == {t \in TaskInOrg(id, org) : EmployeeExists(t.assigned_to)}
      IN /\ last' = Resp("TaskGetOne", org, IF rows = {} THEN "404" ELSE "200",
                         {t.organization_id : t \in rows} \cup
                         OrgsOfEmployees({t.assigned_to : t \in rows}))
         /\ UNCHANGED <<tables, seq, now, inflight, role_requirements>>

TaskUpdate ==
  \E token \in Tokens, id \in TaskIds,
     assignedTo \in {{}} \cup {{e} : e \in EmployeeIds},
     complexity \in {{}} \cup {{c} : c \in RequestComplexities} :
    \E org \in authenticateToken(token) :
      LET rows == TaskInOrg(id, org)
          new(t) == set_task_completed_at(t,
                      [t EXCEPT !.assigned_to = Coalesce(assignedTo, @),
                                !.complexity = Coalesce(complexity, @)])
      IN /\ IF rows = {}
            THEN /\ last' = Resp("TaskUpdate", org, "404", {})
                 /\ UNCHANGED tasks
            ELSE IF \E e \in assignedTo : EmployeeInOrg(e, org) = {}
            THEN /\ last' = Resp("TaskUpdate", org, "404", {})
                 /\ UNCHANGED tasks
            ELSE IF \E t \in rows : ~TaskFK(org, new(t).assigned_to)
            THEN /\ last' = Resp("TaskUpdate", org, "500", {})
                 /\ UNCHANGED tasks
            ELSE /\ tasks' = (tasks \ rows) \cup {new(t) : t \in rows}
                 /\ last' = Resp("TaskUpdate", org, "200",
                                 {t.organization_id : t \in rows} \cup
                                 OrgsOfEmployees({new(t).assigned_to : t \in rows}))
         /\ UNCHANGED <<organizations, employees, productivity_scores,
                        notifications, seq, now, inflight, role_requirements>>

\* the response of updateStatus, with the id and status it was asked for
StatusResp(org, code, touched, id, status) ==
  [Resp("TaskUpdateStatus", org, code, touched) EXCEPT !.id = id, !.status = status]

\* the UPDATE of TaskController.updateStatus and what follows it;
\* assignedTo is the assignee read before the transition was validated
TaskStatusWrite(org, id, status, assignedTo) ==
  LET rows == TaskInOrg(id, org)
      new(t) == set_task_completed_at(t, [t EXCEPT !.status = status])
  IN /\ tasks' = (tasks \ rows) \cup {new(t) : t \in rows}
     /\ IF rows = {}
        THEN /\ last' = StatusResp(org, "500", {}, id, status)
             /\ UNCHANGED notifications
        ELSE IF ~NotificationFK(org, assignedTo)
        THEN /\ last' = StatusResp(org, "500", {t.organization_id : t \in rows}, id, status)
             /\ UNCHANGED notifications
        ELSE /\ notifications' = notifications \cup
                  {NotificationRow(org, assignedTo, "task_updated")}
             /\ last' = StatusResp(org, "200",
                               {t.organization_id : t \in rows} \cup
                               OrgsOfEmployees({assignedTo}), id, status)

TaskUpdateStatus ==
  \E token \in Tokens, id \in TaskIds, status \in StatusInputs :
    \E org \in authenticateToken(token) :
      LET currentTask == TaskInOrg(id, org)
      IN /\ IF ~updateStatusValidation(status) \/ ~isValidStatus(status)
            THEN /\ last' = StatusResp(org, "400", {}, id, status)
                 /\ UNCHANGED <<tasks, notifications>>
            ELSE IF currentTask = {}
            THEN /\ last' = StatusResp(org, "404", {}, id, status)
                 /\ UNCHANGED <<tasks, notifications>>
            ELSE LET t == CHOOSE t \in currentTask : TRUE
                 IN IF ~isValidTransition(t.status, status)
                    THEN /\ last' = StatusResp(org, "400", {}, id, status)
                         /\ UNCHANGED <<tasks, notifications>>
                    ELSE TaskStatusWrite(org, id, status, t.assigned_to)
         /\ UNCHANGED <<organizations, employees, productivity_scores,
                        seq, now, inflight, role_requirements>>

TaskDelete ==
  \E token \in Tokens, id \in TaskIds :
    \E org \in authenticateToken(token) :
      LET rows == TaskInOrg(id, org)
      IN /\ tasks' = tasks \ rows
         /\ last' = Resp("TaskDelete", org, IF rows = {} THEN "404" ELSE "200",
                         {t.organization_id : t \in rows})
         /\ UNCHANGED <<organizations, employees, productivity_scores,
                        notifications, seq, now, inflight, role_requirements>>

\* a request whose token authenticateToken rejects
Unauthorized ==
  \E token \in Tokens :
    /\ authenticateToken(token) = {}
    /\ last' = Resp("Unauthorized", 0, "401", {})
    /\ UNCHANGED <<tables, seq, now, inflight, role_requirements>>

\* DELETE FROM organizations WHERE id = $1 (no route; the cascade of the schema)
DeleteOrganization ==
  \E o \in OrgIds :
    /\ OrgExists(o)
    /\ organizations' = {r \in organizations : r.id # o}
    /\ employees' = {e \in employees : e.organization_id # o}
    /\ tasks' = TasksAfterOrgDelete(tasks, o)
    /\ productivity_scores' = ScoresAfterOrgDelete(productivity_scores, o)
    /\ notifications' = NotificationsAfterOrgDelete(notifications, o)
    /\ last' = Resp("DeleteOrganization", 0, "", {o})
    /\ UNCHANGED <<seq, now, inflight, role_requirements>>

\* time passes
Tick ==
  /\ now < Epoch + MaxNow
  /\ now' = now + 1
  /\ last' = Resp("Tick", 0, "", {})
  /\ UNCHANGED <<tables, seq, inflight, role_requirements>>

\* ---------------------------------------------------------- PasswordService
\* the characters /[A-Z]/, /[a-z]/ and /[0-9]/ match
UpperChars ==
  {"A", "B", "C", "D", "E", "F", "G", "H", "I", "J", "K", "L", "M", "N", "O",
   "P", "Q", "R", "S", "T", "U", "V", "W", "X", "Y", "Z"}
LowerChars ==
  {"a", "b", "c", "d", "e", "f", "g", "h", "i", "j", "k", "l", "m", "n", "o",
   "p", "q", "r", "s", "t", "u", "v", "w", "x", "y", "z"}
DigitChars ==
  {"0", "1", "2", "3", "4", "5", "6", "7", "8", "9"}

\* a password is the sequence of its characters
Passwords ==
  { <<"S","t","r","o","n","g","P","a","s","s","1","2","3">>,
    <<"S","h","o","r","t","1">> }

\* passwords at and next to the length limit, without one or two of the
\* character classes, and with other characters
StrengthPasswords ==
  Passwords \cup
  {<<"P", "a", "s", "s", "w", "0", "r", "d">>,
   <<"P", "a", "s", "s", "w", "0", "r">>,
   <<"P", "@", "s", "s", "w", "0", "r", "d", "!">>,
   <<"s", "h", "o", "r", "t">>,
   <<"S", "h", "o", "r", "t", "1">>,
   <<"l", "o", "w", "e", "r", "c", "a", "s", "e", "1", "2", "3">>,
   <<"l", "o", "w", "e", "r", "c", "a", "s", "e">>,
   <<"U", "P", "P", "E", "R", "C", "A", "S", "E", "1", "2", "3">>,
   <<"U", "P", "P", "E", "R", "C", "A", "S", "E">>,
   <<"N", "o", "N", "u", "m", "b", "e", "r", "s">>,
   <<"1", "2", "3", "4", "5", "6", "7", "8">>,
   <<"A", "b", "1", " ", "d", "e", "f", "g">>}

HasChar(password, class) == \E i \in 1..Len(password) : password[i] \in class

\* mutant: the digit rule is missing
validatePasswordStrength_NoDigitRule(password) ==
  IF Len(password) < 8
  THEN [valid |-> FALSE, message |-> "Password must be at least 8 characters long"]
  ELSE IF ~HasChar(password, UpperChars)
  THEN [valid |-> FALSE, message |-> "Password must contain at least one uppercase letter"]
  ELSE IF ~HasChar(password, LowerChars)
  THEN [valid |-> FALSE, message |-> "Password must contain at least one lowercase letter"]
  ELSE [valid |-> TRUE, message |-> ""]

validatePasswordStrength(password) ==
  IF Len(password) < 8
  THEN [valid |-> FALSE, message |-> "Password must be at least 8 characters long"]
  ELSE IF ~HasChar(password, UpperChars)
  THEN [valid |-> FALSE, message |-> "Password must contain at least one uppercase letter"]
  ELSE IF ~HasChar(password, LowerChars)
  THEN [valid |-> FALSE, message |-> "Password must contain at least one lowercase letter"]
  ELSE IF ~HasChar(password, DigitChars)
  THEN [valid |-> FALSE, message |-> "Password must contain at least one number"]
  ELSE [valid |-> TRUE, message |-> ""]

\* ----------------------------------------------------------- AuthController
\* SELECT id FROM organizations WHERE email = $1
OrgByEmail(email) == {o \in organizations : o.email = email}

\* the INSERT of AuthController.register and its response
RegisterInsert(email) ==
  IF UniqueOrgEmail(organizations, email)
  THEN /\ seq.organizations < MaxOrgs
       /\ organizations' = organizations \cup
            {[id |-> seq.organizations + 1, email |-> email]}
       /\ seq' = [seq EXCEPT !.organizations = @ + 1]
       /\ last' = Resp("Register", seq.organizations + 1, "201", {seq.organizations + 1})
  ELSE /\ last' = Resp("Register", 0, "500", {})
       /\ UNCHANGED <<organizations, seq>>

\* ------------------------------------------------- exact rational arithmetic
\* a JavaScript number is kept as a fraction <<numerator, denominator>> with a
\* positive denominator, in lowest terms
QNorm(n, d) ==
  Only({Only({<<x \div g, y \div g>> : g \in {Gcd(IF x < 0 THEN -x ELSE x, y)}}) :
          x \in {n}, y \in {d}})
QInt(n) == <<n, 1>>
\* common factors are cancelled before the products are formed
QAdd(a, b) ==
  Only({Only({QNorm(x[1] * (y[2] \div g) + y[1] * (x[2] \div g), (x[2] \div g) * y[2]) :
                g \in {Gcd(x[2], y[2])}}) :
          x \in {a}, y \in {b}})
QMul(a, b) ==
  Only({Only({QNorm((x[1] \div g) * (y[1] \div h), (x[2] \div h) * (y[2] \div g)) :
                g \in {Gcd(IF x[1] < 0 THEN -x[1] ELSE x[1], y[2])},
                h \in {Gcd(IF y[1] < 0 THEN -y[1] ELSE y[1], x[2])}}) :
          x \in {a}, y \in {b}})
QDiv(a, b) ==
  Only({IF y[1] < 0 THEN QMul(a, <<-y[2], -y[1]>>) ELSE QMul(a, <<y[2], y[1]>>) :
          y \in {b}})
QLess(a, b) == Only({x[1] * y[2] < y[1] * x[2] : x \in {a}, y \in {b}})
QMax(a, b) == Only({IF QLess(x, y) THEN y ELSE x : x \in {a}, y \in {b}})
QMin(a, b) == Only({IF QLess(y, x) THEN y ELSE x : x \in {a}, y \in {b}})

QSub(a, b) == Only({QAdd(a, <<-y[1], y[2]>>) : y \in {b}})
QAbs(a) == Only({IF x[1] < 0 THEN <<-x[1], x[2]>> ELSE x : x \in {a}})
\* Math.round(x): the integer nearest to x, halves rounded up
QRound(q) == Only({(2 * x[1] + x[2]) \div (2 * x[2]) : x \in {q}})
\* the sum of f[1] .. f[n]
RECURSIVE QSum(_, _)
QSum(f, n) == IF n = 0 THEN QInt(0) ELSE QAdd(QSum(f, n - 1), f[n])

\* parseFloat(x.toFixed(2)) of a number >= 0, in hundredths
ToFixed2(q) ==
  Only({100 * (x[1] \div x[2]) + (200 * (x[1] % x[2]) + x[2]) \div (2 * x[2]) :
          x \in {q}})

\* ------------------------------------------------------ ProductivityService
BASELINE_SCORE == 50
COMPLETION_RATE_WEIGHT == <<4, 10>>
COMPLETION_TIME_WEIGHT == <<3, 10>>
COMPLEXITY_WEIGHT == <<3, 10>>

\* doubled weight of the CASE on complexity (low 1, medium 1.5, high 2)
ComplexityWeight2(c) == IF c = "low" THEN 2 ELSE IF c = "medium" THEN 3 ELSE 4

\* the aggregate query of calculateScore; an AVG over no row is NULL ({})
TaskData(org, emp) ==
  LET rows == {t \in tasks : t.assigned_to = emp /\ t.organization_id = org}
      done == {t \in rows : t.status = "completed"}
      timed == {t \in done : t.completed_at # NULL}
  IN [completed_tasks |-> Cardinality(done),
      total_tasks |-> Cardinality(rows),
      avg_hours |-> IF timed = {} THEN {}
                    ELSE {QNorm(SumF([t \in timed |-> t.completed_at - t.created_at], timed),
                                Cardinality(timed))},
      avg_complexity |-> IF done = {} THEN {}
                         ELSE {QNorm(SumF([t \in done |-> ComplexityWeight2(t.complexity)], done),
                                     2 * Cardinality(done))}]

\* parseFloat(x) || dflt : NULL gives NaN, and NaN and 0 are falsy
ParseFloatOr(x, dflt) ==
  Only({IF y = {} THEN dflt
        ELSE Only({IF v[1] = 0 THEN dflt ELSE v : v \in y}) : y \in {x}})

\* mutant: the value is passed on as it is
Clamp_None(x) == x

\* Math.max(0, Math.min(100, x))
Clamp(x) == QMax(QInt(0), QMin(QInt(100), x))

ScoreRecord(emp, score, rate, hours, complexity) ==
  [employeeId |-> emp, score |-> score, completionRate |-> rate,
   averageCompletionTime |-> hours, taskComplexityHandled |-> complexity,
   calculatedAt |-> now]

\* mutant: an employee without tasks scores 0
BaselineScore_Zero(emp) == ScoreRecord(emp, 0, 0, 0, 0)

BaselineScore(emp) == ScoreRecord(emp, BASELINE_SCORE * 100, 0, 0, 0)

\* the ProductivityScore calculateScore builds from the aggregate row
ComputeScore(taskData, emp) ==
  LET completedTasks == taskData.completed_tasks
      totalTasks == taskData.total_tasks
  IN IF totalTasks = 0 THEN BaselineScore(emp)
     ELSE
       Only({LET completionTimeScore == Clamp(QMul(QDiv(QInt(24), avgHours), QInt(100)))
                 complexityScore == QMul(QDiv(avgComplexity, QInt(2)), QInt(100))
                 rawScore == QAdd(QAdd(QMul(completionRate, COMPLETION_RATE_WEIGHT),
                                       QMul(completionTimeScore, COMPLETION_TIME_WEIGHT)),
                                  QMul(complexityScore, COMPLEXITY_WEIGHT))
                 normalizedScore == Clamp(rawScore)
             IN ScoreRecord(emp, ToFixed2(normalizedScore), ToFixed2(completionRate),
                            ToFixed2(avgHours), ToFixed2(avgComplexity)) :
               completionRate \in {QMul(QNorm(completedTasks, totalTasks), QInt(100))},
               avgHours \in {ParseFloatOr(taskData.avg_hours, QInt(24))},
               avgComplexity \in {ParseFloatOr(taskData.avg_complexity, QInt(1))}})

ScoreRow(id, org, score) ==
  [id |-> id, organization_id |-> org, employee_id |-> score.employeeId,
   score |-> score.score, completion_rate |-> score.completionRate,
   avg_completion_time |-> score.averageCompletionTime,
   complexity_bonus |-> score.taskComplexityHandled,
   calculated_at |-> score.calculatedAt]

\* storeScore: the INSERT succeeds when every constraint of the table holds
StoreScoreOk(rows, org, score) ==
  /\ ScoreFK(org, score.employeeId)
  /\ ScoreCheck(score.score)
  /\ ScoreUnique(rows, score.employeeId, score.calculatedAt)

\* mutant: the record replaces the earlier records of the employee
StoreScore_Replace(rows, id, org, score) ==
  {r \in rows : r.employee_id # score.employeeId} \cup {ScoreRow(id, org, score)}

StoreScore(rows, id, org, score) == rows \cup {ScoreRow(id, org, score)}

Returned == "returned"
Thrown == "thrown"
\* which query of an operation the data store fails
DbFailures == {"none", "read", "write"}

\* one run of calculateScore against the score rows: the score it builds, if
\* the task query succeeded, and whether the record was stored
CalcOutcome(rows, org, emp, fail) ==
  IF fail = "read" THEN [ok |-> FALSE, computed |-> {}]
  ELSE Only({[ok |-> fail # "write" /\ StoreScoreOk(rows, org, score),
               computed |-> {score}] :
               score \in {Only({ComputeScore(taskData, emp) :
                                 taskData \in {TaskData(org, emp)}})}})

\* calculateScore as called by op; fail names the query that the store fails
calculateScore(op, org, emp, fail) ==
  \E out \in {CalcOutcome(productivity_scores, org, emp, fail)} :
     IF out.ok
     THEN /\ seq.scores < MaxScores
          /\ productivity_scores' =
               {r : r \in UNION {StoreScore(productivity_scores, seq.scores + 1, org, sc) :
                                   sc \in out.computed}}
          /\ seq' = [seq EXCEPT !.scores = @ + 1]
          /\ last' = [Resp(op, org, Returned, {org}) EXCEPT
                        !.emp = emp, !.computed = out.computed, !.result = out.computed]
     ELSE /\ last' = [Resp(op, org, Thrown, {}) EXCEPT
                        !.emp = emp, !.computed = out.computed, !.fail = fail]
          /\ UNCHANGED <<productivity_scores, seq>>

\* SELECT * ... ORDER BY calculated_at DESC LIMIT 1: any row with the greatest
\* calculated_at of the employee in the organization
LatestScoreRows(org, emp) ==
  LET rows == {r \in productivity_scores :
                 r.organization_id = org /\ r.employee_id = emp}
  IN {r \in rows : \A x \in rows : x.calculated_at <= r.calculated_at}

RowToScore(r) ==
  [employeeId |-> r.employee_id, score |-> r.score,
   completionRate |-> r.completion_rate,
   averageCompletionTime |-> r.avg_completion_time,
   taskComplexityHandled |-> r.complexity_bonus,
   calculatedAt |-> r.calculated_at]

\* mutant: the failure of one employee ends the loop and is thrown
CatchEmployeeFailure_Rethrow(emp, rest, rows, n) ==
  [rows |-> rows, n |-> n, failed |-> {emp}, thrown |-> TRUE]

\* the catch inside the loop: the failure is logged, and the loop goes on with
\* the employees that remain (rest is the outcome of the remaining iterations)
CatchEmployeeFailure(emp, rest, rows, n) ==
  [rest EXCEPT !.failed = @ \cup {emp}]

\* the loop of batchCalculateScores over the listed employees, in order;
\* fails[e] names the query the store fails during the run for employee e
RECURSIVE BatchLoop(_, _, _, _, _)
BatchLoop(order, fails, org, rows, n) ==
  IF order = <<>>
  THEN [rows |-> rows, n |-> n, failed |-> {}, thrown |-> FALSE]
  ELSE Only({IF out.ok
              THEN BatchLoop(Tail(order), fails, org,
                             UNION {StoreScore(rows, n + 1, org, sc) : sc \in out.computed},
                             n + 1)
              ELSE CatchEmployeeFailure(Head(order),
                                        BatchLoop(Tail(order), fails, org, rows, n),
                                        rows, n) :
               out \in {CalcOutcome(rows, org, Head(order), fails[Head(order)])}})

Orders(S) == {o \in [1..Cardinality(S) -> S] : \A i, j \in 1..Cardinality(S) :
                                                 i # j => o[i] # o[j]}

BatchCalculateScores ==
  \E org \in OrgIds, listFails \in BOOLEAN :
    LET ids == EmployeesOfOrg(org)
    IN \E order \in Orders(ids), fails \in [ids -> DbFailures] :
         \E run \in {BatchLoop(order, fails, org, productivity_scores, seq.scores)} :
            /\ IF listFails
               THEN /\ last' = Resp("batchCalculateScores", org, Thrown, {})
                    /\ UNCHANGED <<productivity_scores, seq>>
               ELSE /\ run.n <= MaxScores
                    /\ productivity_scores' = run.rows
                    /\ seq' = [seq EXCEPT !.scores = run.n]
                    /\ last' = [Resp("batchCalculateScores", org,
                                     IF run.thrown THEN Thrown ELSE Returned,
                                     IF ids = {} THEN {} ELSE {org})
                                EXCEPT !.listed = ids, !.failed = run.failed]
            /\ UNCHANGED <<organizations, employees, tasks, notifications,
                           now, inflight, role_requirements>>

\* ProductivityService.calculateScore called on its own; its callers pass an
\* employee they have found in the organization
CalculateScore ==
  \E org \in OrgIds, emp \in EmployeeIds, fail \in DbFailures :
    /\ EmployeeInOrg(emp, org) # {}
    /\ calculateScore("calculateScore", org, emp, fail)
    /\ UNCHANGED <<organizations, employees, tasks, notifications, now, inflight, role_requirements>>

GetLatestScore ==
  \E org \in OrgIds, emp \in EmployeeIds, fails \in BOOLEAN :
    /\ IF fails
       THEN last' = [Resp("getLatestScore", org, Thrown, {}) EXCEPT !.emp = emp]
       ELSE \E rows \in {{}} \cup {{r} : r \in LatestScoreRows(org, emp)} :
              /\ rows = {} => LatestScoreRows(org, emp) = {}
              /\ last' = [Resp("getLatestScore", org, Returned,
                               {r.organization_id : r \in rows})
                          EXCEPT !.emp = emp, !.result = {RowToScore(r) : r \in rows}]
    /\ UNCHANGED <<tables, seq, now, inflight, role_requirements>>

\* SELECT DISTINCT ON (ps.employee_id) ... JOIN employees ...
\* ORDER BY ps.employee_id, ps.calculated_at DESC
AllScoresRows(org) ==
  {r \in productivity_scores :
     /\ r.organization_id = org
     /\ EmployeeExists(r.employee_id)
     /\ r \in LatestScoreRows(org, r.employee_id)}

GetAllScores ==
  \E org \in OrgIds, fails \in BOOLEAN :
    /\ IF fails
       THEN last' = Resp("getAllScores", org, Thrown, {})
       ELSE last' = [Resp("getAllScores", org, Returned,
                          {r.organization_id : r \in AllScoresRows(org)})
                     EXCEPT !.result = {RowToScore(r) : r \in AllScoresRows(org)}]
    /\ UNCHANGED <<tables, seq, now, inflight, role_requirements>>

\* INSERT INTO productivity_scores (organization_id, employee_id, score)
\* issued on the pool directly, with the scores 75.5, 150 and -10
DirectScores == {7550, 15000, -1000}

InsertScoreRow ==
  \E org \in OrgIds, emp \in EmployeeIds, score \in DirectScores :
    LET row == [id |-> seq.scores + 1, organization_id |-> org, employee_id |-> emp,
                score |-> score, completion_rate |-> NULL,
                avg_completion_time |-> NULL, complexity_bonus |-> NULL,
                calculated_at |-> now]
    IN /\ IF /\ ScoreFK(org, emp)
              /\ ScoreCheck(score)
              /\ ScoreUnique(productivity_scores, emp, now)
          THEN /\ seq.scores < MaxScores
               /\ productivity_scores' = productivity_scores \cup {row}
               /\ seq' = [seq EXCEPT !.scores = @ + 1]
               /\ last' = [Resp("InsertScoreRow", org, Returned, {org}) EXCEPT !.emp = emp]
          ELSE /\ last' = [Resp("InsertScoreRow", org, Thrown, {}) EXCEPT !.emp = emp]
               /\ UNCHANGED <<productivity_scores, seq>>
       /\ UNCHANGED <<organizations, employees, tasks, notifications, now, inflight, role_requirements>>

\* ------------------------------------------------------------ AIController
ONE_HOUR == 1

\* mutant: a stored score never expires
NeedsNewScore_NeverExpires(rows) == rows = {}

\* !score || (new Date().getTime() - new Date(score.calculatedAt).getTime()) > 3600000
\* for the answer of getLatestScore (no row or one row)
NeedsNewScore(rows) == rows = {} \/ \E r \in rows : now - r.calculated_at > ONE_HOUR

GetProductivityScore ==
  \E token \in Tokens, emp \in EmployeeIds :
    \E org \in authenticateToken(token) :
      /\ IF EmployeeInOrg(emp, org) = {}
         THEN /\ last' = [Resp("GetProductivityScore", org, "404", {}) EXCEPT !.emp = emp]
              /\ UNCHANGED <<productivity_scores, seq>>
         ELSE \E rows \in {{}} \cup {{r} : r \in LatestScoreRows(org, emp)} :
                /\ rows = {} => LatestScoreRows(org, emp) = {}
                /\ IF NeedsNewScore(rows)
                   THEN calculateScore("GetProductivityScore", org, emp, "none")
                   ELSE /\ last' = [Resp("GetProductivityScore", org, Returned,
                                         {r.organization_id : r \in rows})
                                    EXCEPT !.emp = emp,
                                           !.result = {RowToScore(r) : r \in rows}]
                        /\ UNCHANGED <<productivity_scores, seq>>
      /\ UNCHANGED <<organizations, employees, tasks, notifications, now, inflight, role_requirements>>

\* ------------------------------------------------ performance trend service
HOURS_PER_DAY == 24
HISTORY_DAYS == 30
MIN_DATA_POINTS == 4
DAYS_AHEAD == 7

\* a number that can be NaN is kept as {} (NaN) or {q}
NaN == {}

\* the rows of S as a sequence, calculated_at ascending
RECURSIVE SortByDate(_)
SortByDate(S) ==
  Only({IF T = {} THEN <<>>
        ELSE Only({<<m>> \o SortByDate(T \ {m}) :
                     m \in {CHOOSE r \in T : \A x \in T : r.calculated_at <= x.calculated_at}}) :
          T \in {S}})

\* getHistoricalScores: the scores of the last 30 days, oldest first; a failed
\* query is logged and gives the empty list
getHistoricalScores(employeeId, organizationId, fails) ==
  IF fails THEN <<>>
  ELSE Only({[i \in 1..Len(rows) |-> [score |-> rows[i].score,
                                        date |-> rows[i].calculated_at]] :
               rows \in {SortByDate({r \in productivity_scores :
                                       /\ r.employee_id = employeeId
                                       /\ r.organization_id = organizationId
                                       /\ r.calculated_at >
                                            now - HISTORY_DAYS * HOURS_PER_DAY})}})

\* the sum of f[i] * g[i] over 1..n
RECURSIVE QDot(_, _, _)
QDot(f, g, n) == IF n = 0 THEN QInt(0) ELSE QAdd(QDot(f, g, n - 1), QMul(f[n], g[n]))

\* the second half of calculateLinearRegression: slope and intercept from the
\* deviations dx, dy, then R squared from the residuals
RegressionFit(x, y, n, xMean, yMean, dx, dy) ==
  Only({Only({Only({[slope |-> slope, intercept |-> intercept,
                     rSquared |-> Only({IF ssTot[1] # 0
                                        THEN QSub(QInt(1), QDiv(QDot(res, res, n), ssTot))
                                        ELSE QInt(0) : ssTot \in {QDot(dy, dy, n)}})] :
                      res \in {[i \in 1..n |->
                                 QSub(y[i], QAdd(QMul(slope, x[i]), intercept))]}}) :
                intercept \in {QSub(yMean, QMul(slope, xMean))}}) :
          slope \in {Only({IF denominator[1] # 0
                           THEN QDiv(QDot(dx, dy, n), denominator) ELSE QInt(0) :
                             denominator \in {QDot(dx, dx, n)}})}})

\* the first half: x, y and their means
RegressionMeans(x, y, n) ==
  Only({RegressionFit(x, y, n, xMean, yMean,
                      [i \in 1..n |-> QSub(x[i], xMean)],
                      [i \in 1..n |-> QSub(y[i], yMean)]) :
          xMean \in {QDiv(QSum(x, n), QInt(n))},
          yMean \in {QDiv(QSum(y, n), QInt(n))}})

\* calculateLinearRegression over numbers: score in points, x in days since
\* the first point
calculateLinearRegression(dataPoints) ==
  Only({IF Len(pts) < 2
        THEN [slope |-> QInt(0), intercept |-> QInt(0), rSquared |-> QInt(0)]
        ELSE Only({RegressionMeans(x, y, Len(pts)) :
                     x \in {[i \in 1..Len(pts) |->
                               QNorm(pts[i].date - pts[1].date, HOURS_PER_DAY)]},
                     y \in {[i \in 1..Len(pts) |-> QNorm(pts[i].score, 100)]}}) :
          pts \in {dataPoints}})

\* the three queries of analyzeContributingFactors, over the last 30 days
FactorTasks(employeeId, organizationId) ==
  {t \in tasks : /\ t.assigned_to = employeeId /\ t.organization_id = organizationId
                 /\ t.created_at > now - HISTORY_DAYS * HOURS_PER_DAY}
FactorCompleted(employeeId, organizationId) ==
  {t \in tasks : /\ t.assigned_to = employeeId /\ t.organization_id = organizationId
                 /\ t.status = "completed"
                 /\ t.completed_at # NULL
                 /\ t.completed_at > now - HISTORY_DAYS * HOURS_PER_DAY}

FactorQueries == {"factors1", "factors2", "factors3"}

\* analyzeContributingFactors: the phrases pushed before a query fails stay in
\* the list, and the catch adds one phrase; zeroTruthy says whether an average
\* of exactly 0 hours passes the test if (avgHours), which it does when the
\* driver hands the average over as text
analyzeContributingFactors(employeeId, organizationId, trend, fail, zeroTruthy) ==
  LET unable == <<"Unable to determine specific factors">>
      recent == FactorTasks(employeeId, organizationId)
      completed == Cardinality({t \in recent : t.status = "completed"})
      active == Cardinality({t \in recent : t.status \in {"assigned", "in_progress"}})
      total == Cardinality(recent)
      completionRate == IF total > 0 THEN QMul(QNorm(completed, total), QInt(100))
                        ELSE QInt(0)
      f1 == IF trend = "declining"
            THEN (IF QLess(completionRate, QInt(50))
                  THEN <<"Low task completion rate (< 50%)">> ELSE <<>>)
                 \o (IF active > 5 THEN <<"High number of pending tasks">> ELSE <<>>)
            ELSE IF trend = "improving"
            THEN (IF QLess(QInt(75), completionRate)
                  THEN <<"High task completion rate (> 75%)">> ELSE <<>>)
                 \o (IF completed > 5 THEN <<"Consistently completing tasks">> ELSE <<>>)
            ELSE <<>>
      done == FactorCompleted(employeeId, organizationId)
      sumHours == SumF([t \in done |-> t.completed_at - t.created_at], done)
      avgTruthy == done # {} /\ (sumHours # 0 \/ zeroTruthy)
      f2 == IF avgTruthy /\ trend = "improving" /\ sumHours < 24 * Cardinality(done)
            THEN <<"Fast task completion times">>
            ELSE IF avgTruthy /\ trend = "declining" /\ sumHours > 72 * Cardinality(done)
            THEN <<"Slow task completion times">>
            ELSE <<>>
      highComplexity == Cardinality({t \in done : t.complexity = "high"})
      totalCompleted == Cardinality(done)
      f3 == IF trend = "improving" /\ 10 * highComplexity > 3 * totalCompleted
            THEN <<"Successfully handling complex tasks">> ELSE <<>>
      found == f1 \o f2 \o f3
  IN IF fail = "factors1" THEN unable
     ELSE IF fail = "factors2" THEN f1 \o unable
     ELSE IF fail = "factors3" THEN f1 \o f2 \o unable
     ELSE IF found # <<>> THEN found
     ELSE IF trend = "stable" THEN <<"Consistent performance over time">>
     ELSE IF trend = "improving" THEN <<"General improvement in work quality">>
     ELSE <<"Performance variation detected">>

TrendFailures == {"none", "employee", "history"} \cup FactorQueries

\* the prediction predictPerformanceTrend builds from the regression
PredictionOf(employeeId, organizationId, fail, numericAsText, zeroTruthy, historicalScores, reg, trend) ==
  LET n == Len(historicalScores)
      confidence == IF numericAsText THEN NaN
                    ELSE {QRound(QMul(QAbs(reg.rSquared), QInt(100)))}
      lastX == QNorm(historicalScores[n].date - historicalScores[1].date, HOURS_PER_DAY)
      predicted == QRound(QAdd(QMul(reg.slope, QAdd(lastX, QInt(DAYS_AHEAD))),
                               reg.intercept))
      predictedScore == IF numericAsText THEN NaN
                        ELSE {100 * Max(0, Min(100, predicted))}
  IN [code |-> Returned, failed |-> fail \in FactorQueries,
      result |-> {[employeeId |-> employeeId, trend |-> trend,
                   confidence |-> confidence,
                   currentScore |-> historicalScores[n].score,
                   predictedScore |-> predictedScore,
                   dataPoints |-> n,
                   contributingFactors |->
                     analyzeContributingFactors(employeeId, organizationId,
                                                trend, fail, zeroTruthy)]}]

\* predictPerformanceTrend: what the call gives back. numericAsText says
\* whether the driver hands a DECIMAL column over as text; sums of texts are
\* concatenations, and the regression over them is NaN throughout
predictPerformanceTrend(employeeId, organizationId, fail, numericAsText, zeroTruthy) ==
  IF fail = "employee" THEN [code |-> Thrown, result |-> {}, failed |-> TRUE]
  ELSE IF EmployeeInOrg(employeeId, organizationId) = {}
  THEN [code |-> Returned, result |-> {}, failed |-> FALSE]
  ELSE
    Only({LET n == Len(historicalScores)
          IN IF n < MIN_DATA_POINTS
             THEN LET lastScore ==
                        IF n = 0 \/ (historicalScores[n].score = 0 /\ ~numericAsText)
                        THEN BASELINE_SCORE * 100 ELSE historicalScores[n].score
                  IN [code |-> Returned, failed |-> fail = "history",
                      result |-> {[employeeId |-> employeeId, trend |-> "stable",
                                   confidence |-> {0},
                                   currentScore |-> lastScore,
                                   predictedScore |-> {lastScore},
                                   dataPoints |-> n,
                                   contributingFactors |->
                                     <<"Insufficient data for trend analysis (need 4+ scores)">>]}]
             ELSE Only({Only({PredictionOf(employeeId, organizationId, fail, numericAsText,
                                           zeroTruthy, historicalScores, reg, trend) :
                                trend \in {IF numericAsText THEN "stable"
                                           ELSE IF QLess(<<1, 2>>, reg.slope) THEN "improving"
                                           ELSE IF QLess(reg.slope, <<-1, 2>>) THEN "declining"
                                           ELSE "stable"}}) :
                          reg \in {calculateLinearRegression(historicalScores)}}) :
            historicalScores \in {getHistoricalScores(employeeId, organizationId,
                                                      fail = "history")}})

PredictPerformanceTrend ==
  \E org \in OrgIds, emp \in EmployeeIds, fail \in TrendFailures,
     numericAsText \in BOOLEAN, zeroTruthy \in BOOLEAN :
    \E out \in {predictPerformanceTrend(emp, org, fail, numericAsText, zeroTruthy)} :
       /\ last' = [Resp("predictPerformanceTrend", org, out.code,
                        IF out.result = {} THEN {} ELSE {org})
                   EXCEPT !.emp = emp, !.result = out.result,
                          !.fail = IF out.failed THEN fail ELSE "none"]
       /\ UNCHANGED <<tables, seq, now, inflight, role_requirements>>

\* -------------------------------------------------- task assignment service
SEVEN_DAYS == 7
TOP_N == 5
DEFAULT_SCORE == 50

ToLowerCase(str) ==
  CASE str = "Python" -> "python"
    [] str = "SQL" -> "sql"
    [] str = "Engineering" -> "engineering"
    [] OTHER -> str

\* requiredSkills is a sequence without repetitions, employeeSkills a set
calculateSkillsMatch(employeeSkills, requiredSkills) ==
  IF requiredSkills = <<>> THEN 100
  ELSE LET matchedSkills ==
             {i \in DOMAIN requiredSkills :
                \E empSkill \in employeeSkills :
                  ToLowerCase(empSkill) = ToLowerCase(requiredSkills[i])}
       IN QRound(QMul(QNorm(Cardinality(matchedSkills), Len(requiredSkills)), QInt(100)))

\* mutant: a failed workload query counts as a full workload
calculateWorkloadScore_Zero(employeeId, organizationId, fails) ==
  IF fails THEN 0
  ELSE LET activeTasks ==
             Cardinality({t \in tasks : /\ t.assigned_to = employeeId
                                        /\ t.organization_id = organizationId
                                        /\ t.status \in {"assigned", "in_progress"}})
       IN IF activeTasks = 0 THEN 100
          ELSE IF activeTasks >= 10 THEN 0
          ELSE Max(0, 100 - activeTasks * 10)

\* mutant: an active task costs 5 points instead of 10
calculateWorkloadScore_Halved(employeeId, organizationId, fails) ==
  IF fails THEN DEFAULT_SCORE
  ELSE LET activeTasks ==
             Cardinality({t \in tasks : /\ t.assigned_to = employeeId
                                        /\ t.organization_id = organizationId
                                        /\ t.status \in {"assigned", "in_progress"}})
       IN IF activeTasks = 0 THEN 100
          ELSE IF activeTasks >= 10 THEN 0
          ELSE Max(0, 100 - activeTasks * 5)

calculateWorkloadScore(employeeId, organizationId, fails) ==
  IF fails THEN DEFAULT_SCORE
  ELSE LET activeTasks ==
             Cardinality({t \in tasks : /\ t.assigned_to = employeeId
                                        /\ t.organization_id = organizationId
                                        /\ t.status \in {"assigned", "in_progress"}})
       IN IF activeTasks = 0 THEN 100
          ELSE IF activeTasks >= 10 THEN 0
          ELSE Max(0, 100 - activeTasks * 10)

\* mutant: the stored scores are ignored
getProductivityScore_Default(employeeId, organizationId, fails) ==
  DEFAULT_SCORE * 100

\* the latest stored score of the employee, in hundredths, or the default 50
\* (the unique index on employee_id, calculated_at leaves one latest row)
getProductivityScore(employeeId, organizationId, fails) ==
  IF fails \/ LatestScoreRows(organizationId, employeeId) = {}
  THEN DEFAULT_SCORE * 100
  ELSE (CHOOSE r \in LatestScoreRows(organizationId, employeeId) : TRUE).score

calculateAvailabilityScore(employeeId, organizationId, fails) ==
  IF fails THEN DEFAULT_SCORE
  ELSE LET recentCompletions ==
             Cardinality({t \in tasks : /\ t.assigned_to = employeeId
                                        /\ t.organization_id = organizationId
                                        /\ t.status = "completed"
                                        /\ t.completed_at # NULL
                                        /\ t.completed_at > now - SEVEN_DAYS * HOURS_PER_DAY})
       IN IF recentCompletions >= 3 THEN 100
          ELSE IF recentCompletions >= 2 THEN 80
          ELSE IF recentCompletions >= 1 THEN 60
          ELSE 40

\* the recommendation built for one employee row; productivityScore is in
\* hundredths
Recommendation(employee, requiredSkills, organizationId, fail) ==
  LET skillsMatch == calculateSkillsMatch(employee.skills, requiredSkills)
      productivityScore ==
        getProductivityScore(employee.id, organizationId, fail = "productivity")
      workloadScore == calculateWorkloadScore(employee.id, organizationId, fail = "workload")
      availabilityScore ==
        calculateAvailabilityScore(employee.id, organizationId, fail = "availability")
      total == QAdd(QAdd(QMul(QInt(skillsMatch), <<4, 10>>),
                         QMul(QInt(workloadScore), <<3, 10>>)),
                    QAdd(QMul(QNorm(productivityScore, 100), <<2, 10>>),
                         QMul(QInt(availabilityScore), <<1, 10>>)))
      activeTasks == QRound(QNorm(100 - workloadScore, 10))
      reasoning ==
        <<IF skillsMatch = 100 THEN "Has all required skills"
          ELSE IF skillsMatch >= 75 THEN "Has most required skills"
          ELSE IF skillsMatch >= 50 THEN "Has some required skills"
          ELSE IF skillsMatch > 0 THEN "Has few required skills"
          ELSE "Missing required skills">>
        \o <<IF workloadScore >= 80 THEN "Low current workload"
             ELSE IF workloadScore >= 50 THEN "Moderate workload"
             ELSE "High current workload">>
        \o <<IF productivityScore >= 8000 THEN "High productivity score"
             ELSE IF productivityScore >= 6000 THEN "Good productivity score"
             ELSE "Average productivity score">>
        \o (IF availabilityScore >= 80 THEN <<"Recently active">> ELSE <<>>)
        \o (IF activeTasks >= 10 THEN <<"At maximum task capacity">> ELSE <<>>)
        \* (the phrase of the source starts with a warning sign)
  IN [employeeId |-> employee.id, role |-> employee.role,
      department |-> employee.department,
      suitabilityScore |-> QRound(total), reasoning |-> reasoning,
      currentWorkload |-> activeTasks, productivityScore |-> productivityScore,
      skillsMatch |-> skillsMatch]

\* recommendations.sort((a, b) => b.suitabilityScore - a.suitabilityScore): a
\* stable sort, highest score first
RECURSIVE SortBySuitability(_)
SortBySuitability(recs) ==
  IF recs = <<>> THEN <<>>
  ELSE LET best == CHOOSE i \in DOMAIN recs :
                     /\ \A j \in DOMAIN recs : recs[j].suitabilityScore <= recs[i].suitabilityScore
                     /\ \A j \in 1..(i - 1) : recs[j].suitabilityScore < recs[i].suitabilityScore
       IN <<recs[best]>> \o
          SortBySuitability([j \in 1..(Len(recs) - 1) |->
                               IF j < best THEN recs[j] ELSE recs[j + 1]])

\* the employee rows the first query of recommendEmployeesForTask selects
Candidates(organizationId, department) ==
  {e \in employees :
     /\ e.organization_id = organizationId /\ e.is_active
     /\ \A d \in department : ToLowerCase(e.department) = ToLowerCase(d)}

AssignmentFailures == {"none", "employees", "workload", "productivity", "availability"}

\* mutant: the recommendations are sorted lowest score first
recommendEmployeesForTask_Ascending(rows, requiredSkills, organizationId, fail) ==
  IF fail = "employees" THEN [code |-> Thrown, result |-> {}]
  ELSE LET recommendations ==
             [i \in DOMAIN rows |->
                Recommendation(rows[i], requiredSkills, organizationId, fail)]
           sorted == SortBySuitability(recommendations)
           reversed == [i \in DOMAIN sorted |-> sorted[Len(sorted) + 1 - i]]
       IN [code |-> Returned,
           result |-> {SubSeq(reversed, 1, Min(TOP_N, Len(reversed)))}]

\* mutant: the recommendations are cut to five without being sorted
recommendEmployeesForTask_Unsorted(rows, requiredSkills, organizationId, fail) ==
  IF fail = "employees" THEN [code |-> Thrown, result |-> {}]
  ELSE LET recommendations ==
             [i \in DOMAIN rows |->
                Recommendation(rows[i], requiredSkills, organizationId, fail)]
       IN [code |-> Returned,
           result |-> {SubSeq(recommendations, 1, Min(TOP_N, Len(recommendations)))}]

\* recommendEmployeesForTask over the employee rows in the order the store
\* returned them
recommendEmployeesForTask(rows, requiredSkills, organizationId, fail) ==
  IF fail = "employees" THEN [code |-> Thrown, result |-> {}]
  ELSE LET recommendations ==
             [i \in DOMAIN rows |->
                Recommendation(rows[i], requiredSkills, organizationId, fail)]
           sorted == SortBySuitability(recommendations)
       IN [code |-> Returned,
           result |-> {SubSeq(sorted, 1, Min(TOP_N, Len(sorted)))}]

RequiredSkillLists == {<<>>, <<"python">>, <<"Python", "SQL">>}

\* the rows in the order of their ids
RECURSIVE RowsById(_)
RowsById(S) ==
  IF S = {} THEN <<>>
  ELSE LET first == CHOOSE e \in S : \A x \in S : e.id <= x.id
       IN <<first>> \o RowsById(S \ {first})

\* the orders in which a SELECT without ORDER BY returns the rows: every order
\* of up to MaxPermuted rows, the order of the ids and its reverse beyond that
RowOrders(S) ==
  IF Cardinality(S) <= MaxPermuted THEN Orders(S)
  ELSE {RowsById(S), [i \in 1..Cardinality(S) |-> RowsById(S)[Cardinality(S) + 1 - i]]}

RecommendEmployeesForTask ==
  \E org \in OrgIds, department \in {{}, {"engineering"}} :
    \E rows \in RowOrders(Candidates(org, department)) :
      \E requiredSkills \in RequiredSkillLists, fail \in AssignmentFailures :
        \E out \in {recommendEmployeesForTask(rows, requiredSkills, org, fail)} :
          /\ last' = [Resp("recommendEmployeesForTask", org, out.code,
                           IF out.code = Thrown \/ rows = <<>> THEN {} ELSE {org})
                      EXCEPT !.result = out.result,
                             !.request = [requiredSkills |-> requiredSkills,
                                          department |-> department],
                             !.fail = IF fail = "employees" \/ rows # <<>>
                                      THEN fail ELSE "none"]
          /\ UNCHANGED <<tables, seq, now, inflight, role_requirements>>

\* mutant: the suitabilityScore alone decides
validateEmployeeForTask_ScoreOnly(employeeId, recommended) ==
  IF recommended.code = Thrown
  THEN [suitable |-> FALSE, score |-> 0, warnings |-> <<"Error validating employee">>]
  ELSE LET recommendations == Only(recommended.result)
           found == {i \in DOMAIN recommendations :
                       recommendations[i].employeeId = employeeId}
       IN IF found = {}
          THEN [suitable |-> FALSE, score |-> 0,
                warnings |-> <<"Employee not found or not active">>]
          ELSE LET employeeRec == recommendations[CHOOSE i \in found : TRUE]
                   warnings ==
                     (IF employeeRec.skillsMatch < 50
                      THEN <<"Employee missing most required skills">> ELSE <<>>)
                     \o (IF employeeRec.currentWorkload >= 8
                         THEN <<"Employee has high workload">> ELSE <<>>)
                     \o (IF employeeRec.productivityScore < 4000
                         THEN <<"Employee has low productivity score">> ELSE <<>>)
               IN [suitable |-> employeeRec.suitabilityScore >= 50,
                   score |-> employeeRec.suitabilityScore, warnings |-> warnings]

\* validateEmployeeForTask after its call of recommendEmployeesForTask came
\* back with recommended (a list or a thrown error): the employee is looked
\* up in that list; productivityScore is in hundredths
validateEmployeeForTask(employeeId, recommended) ==
  IF recommended.code = Thrown
  THEN [suitable |-> FALSE, score |-> 0, warnings |-> <<"Error validating employee">>]
  ELSE LET recommendations == Only(recommended.result)
           found == {i \in DOMAIN recommendations :
                       recommendations[i].employeeId = employeeId}
       IN IF found = {}
          THEN [suitable |-> FALSE, score |-> 0,
                warnings |-> <<"Employee not found or not active">>]
          ELSE LET employeeRec == recommendations[CHOOSE i \in found : TRUE]
                   warnings ==
                     (IF employeeRec.skillsMatch < 50
                      THEN <<"Employee missing most required skills">> ELSE <<>>)
                     \o (IF employeeRec.currentWorkload >= 8
                         THEN <<"Employee has high workload">> ELSE <<>>)
                     \o (IF employeeRec.productivityScore < 4000
                         THEN <<"Employee has low productivity score">> ELSE <<>>)
               IN [suitable |-> employeeRec.suitabilityScore >= 50 /\ warnings = <<>>,
                   score |-> employeeRec.suitabilityScore, warnings |-> warnings]

\* the employee ids a validation request can name: those of the stored rows
\* and one that no row has
ValidatedIds == {e.id : e \in employees} \cup {0}

ValidateEmployeeForTask ==
  \E org \in OrgIds, department \in {{}, {"engineering"}} :
    \E rows \in RowOrders(Candidates(org, department)) :
      \E requiredSkills \in RequiredSkillLists, fail \in AssignmentFailures :
        \E recommended \in {recommendEmployeesForTask(rows, requiredSkills, org, fail)} :
          \E employeeId \in ValidatedIds :
            \E out \in {validateEmployeeForTask(employeeId, recommended)} :
              /\ last' = [Resp("validateEmployeeForTask", org, Returned,
                               IF fail = "employees" \/ rows = <<>> THEN {} ELSE {org})
                          EXCEPT !.emp = employeeId,
                                 !.result = {out},
                                 !.request = [requiredSkills |-> requiredSkills,
                                              department |-> department],
                                 !.fail = IF fail = "employees" \/ rows # <<>>
                                          THEN fail ELSE "none"]
              /\ UNCHANGED <<tables, seq, now, inflight, role_requirements>>

\* ------------------------------------------- organization-wide trend requests
\* the comparator of trends.sort: declining before the others, then
\* b.confidence - a.confidence, which is NaN (taken as 0) when either is NaN
TrendCompare(a, b) ==
  IF a.trend = "declining" /\ b.trend # "declining" THEN -1
  ELSE IF a.trend # "declining" /\ b.trend = "declining" THEN 1
  ELSE IF a.confidence = NaN \/ b.confidence = NaN THEN 0
  ELSE Only(b.confidence) - Only(a.confidence)

\* trends.sort(comparator): a stable sort
RECURSIVE SortTrends(_)
SortTrends(trends) ==
  IF trends = <<>> THEN <<>>
  ELSE LET first == CHOOSE i \in DOMAIN trends :
                      /\ \A j \in DOMAIN trends : TrendCompare(trends[i], trends[j]) <= 0
                      /\ \A j \in 1..(i - 1) : TrendCompare(trends[i], trends[j]) < 0
       IN <<trends[first]>> \o
          SortTrends([j \in 1..(Len(trends) - 1) |->
                        IF j < first THEN trends[j] ELSE trends[j + 1]])

\* the trends pushed for the calls that gave one, in the order of the calls
RECURSIVE PushTrends(_)
PushTrends(calls) ==
  IF calls = <<>> THEN <<>>
  ELSE (IF Head(calls).result = {} THEN <<>> ELSE <<Only(Head(calls).result)>>)
       \o PushTrends(Tail(calls))

OrgTrendFailures == {"none", "employees", "employee", "history"}

\* predictOrganizationTrends over the rows of the active employees in the
\* order the store returned them; fail names the query that fails: the one for
\* the employees or, in every call of predictPerformanceTrend, the one for the
\* employee or the one for the history
predictOrganizationTrends(rows, organizationId, fail, numericAsText, zeroTruthy) ==
  IF fail = "employees" THEN [code |-> Thrown, result |-> {}]
  ELSE Only({IF \E i \in DOMAIN calls : calls[i].code = Thrown
             THEN [code |-> Thrown, result |-> {}]
             ELSE [code |-> Returned, result |-> {SortTrends(PushTrends(calls))}] :
               calls \in {[i \in DOMAIN rows |->
                             predictPerformanceTrend(rows[i].id, organizationId, fail,
                                                     numericAsText, zeroTruthy)]}})

AtRisk(trend) == trend.trend = "declining" /\ \E c \in trend.confidence : c > 50

\* mutant: every declining employee is at risk
getEmployeesAtRisk_AnyConfidence(allTrends) ==
  IF allTrends.code = Thrown THEN allTrends
  ELSE LET declining(trend) == trend.trend = "declining"
       IN [code |-> Returned, result |-> {SelectSeq(Only(allTrends.result), declining)}]

\* getEmployeesAtRisk after its call of predictOrganizationTrends came back
getEmployeesAtRisk(allTrends) ==
  IF allTrends.code = Thrown THEN allTrends
  ELSE [code |-> Returned, result |-> {SelectSeq(Only(allTrends.result), AtRisk)}]

PredictOrganizationTrends ==
  \E org \in OrgIds, fail \in OrgTrendFailures,
     numericAsText \in BOOLEAN, zeroTruthy \in BOOLEAN :
    \E rows \in RowOrders(Candidates(org, {})) :
      \E out \in {predictOrganizationTrends(rows, org, fail, numericAsText, zeroTruthy)} :
        /\ last' = [Resp("predictOrganizationTrends", org, out.code,
                         IF out.code = Thrown \/ rows = <<>> THEN {} ELSE {org})
                    EXCEPT !.result = out.result,
                           !.request = [rows |-> rows, numericAsText |-> numericAsText,
                                        zeroTruthy |-> zeroTruthy],
                           !.fail = fail]
        /\ UNCHANGED <<tables, seq, now, inflight, role_requirements>>

GetEmployeesAtRisk ==
  \E org \in OrgIds, fail \in OrgTrendFailures,
     numericAsText \in BOOLEAN, zeroTruthy \in BOOLEAN :
    \E rows \in RowOrders(Candidates(org, {})) :
      \E out \in {getEmployeesAtRisk(
                     predictOrganizationTrends(rows, org, fail, numericAsText, zeroTruthy))} :
        /\ last' = [Resp("getEmployeesAtRisk", org, out.code,
                         IF out.code = Thrown \/ out.result = {<<>>} THEN {} ELSE {org})
                    EXCEPT !.result = out.result,
                           !.request = [rows |-> rows, numericAsText |-> numericAsText,
                                        zeroTruthy |-> zeroTruthy],
                           !.fail = fail]
        /\ UNCHANGED <<tables, seq, now, inflight, role_requirements>>

\* ------------------------------------------------------- the CRUD machine

\* two registered organizations, the first with one employee, nothing else yet
Init ==
  /\ organizations = {[id |-> 1, email |-> "a@x.io"], [id |-> 2, email |-> "b@x.io"]}
  /\ employees = {EmployeeRow(1, 1, "a@x.io", "Developer", "Engineering", {"Python"})}
  /\ tasks = {}
  /\ productivity_scores = {}
  /\ notifications = {}
  /\ role_requirements = {}
  /\ seq = [organizations |-> 2, employees |-> 1, tasks |-> 0, scores |-> 0]
  /\ now = Epoch
  /\ inflight = <<>>
  /\ last = Resp("none", 0, "", {})

Next ==
  \/ EmployeeCreate
  \/ EmployeeList
  \/ EmployeeGetOne
  \/ EmployeeUpdate
  \/ EmployeeDelete
  \/ TaskCreate
  \/ TaskList
  \/ TaskGetOne
  \/ TaskUpdate
  \/ TaskUpdateStatus
  \/ TaskDelete
  \/ Unauthorized

Spec == Init /\ [][Next]_vars

\* the rows of the employees and tasks tables that belong to organization o
EmployeesIn(o) == {e \in employees : e.organization_id = o}
TasksIn(o) == {t \in tasks : t.organization_id = o}

\* C8: a request made with a token of one organization returns, writes,
\* deletes and assigns work to rows of that organization only, it leaves the
\* employees and tasks of every other organization as they are, and the
\* assignee of every task is an employee of the organization of the task
C8_TenantIsolation ==
  /\ [](last.touched \subseteq {last.org})
  /\ [](\A t \in tasks : \A e \in employees :
          e.id = t.assigned_to => e.organization_id = t.organization_id)
  /\ [][\A o \in OrgIds : o # last'.org =>
          /\ EmployeesIn(o)' = EmployeesIn(o)
          /\ TasksIn(o)' = TasksIn(o)]_vars

\* C8 witness: a status request with the token of one organization, aimed at
\* a task of the other organization, was answered 404
C8_Witness ==
  /\ last.op = "TaskUpdateStatus" /\ last.code = "404"
  /\ \E t \in tasks : t.id = last.id /\ t.organization_id # last.org

\* ------------------------------------------- rows and the rows they refer to
NextData ==
  \/ EmployeeCreate
  \/ EmployeeDelete
  \/ TaskCreate
  \/ TaskUpdate
  \/ TaskUpdateStatus
  \/ TaskDelete
  \/ GetProductivityScore
  \/ DeleteOrganization

SpecData == Init /\ [][NextData]_vars

\* C10: every task, productivity score and notification refers to an
\* employee and to an organization that exist
C10_ReferentialIntegrity ==
  /\ \A t \in tasks : OrgExists(t.organization_id) /\ EmployeeExists(t.assigned_to)
  /\ \A r \in productivity_scores :
       OrgExists(r.organization_id) /\ EmployeeExists(r.employee_id)
  /\ \A n \in notifications :
       OrgExists(n.organization_id) /\ EmployeeExists(n.employee_id)

\* C10 witness: an employee was deleted, and the task, the score and the
\* notifications that had been stored for employees are gone
C10_Witness ==
  /\ last.op = "EmployeeDelete" /\ last.code = "200"
  /\ seq.tasks > 0 /\ tasks = {}
  /\ seq.scores > 0 /\ productivity_scores = {}
  /\ notifications = {}
  /\ role_requirements = {}

\* -------------------------------------------------- the productivity scorer
\* the task histories an employee can have: every task is either open or
\* completed, with a complexity and a time from creation to completion
Durations == {0, 6, 4800}
TaskShapes ==
  {[status |-> "in_progress", complexity |-> "medium", hours |-> NULL]} \cup
  [status : {"completed"}, complexity : {"low", "high"}, hours : Durations \cup {NULL}]

HistoryTask(id, org, emp, shape) ==
  [TaskRow(id, org, emp, shape.complexity) EXCEPT
     !.status = shape.status,
     !.created_at = IF shape.hours = NULL THEN Epoch ELSE Epoch - shape.hours,
     !.completed_at = IF shape.hours = NULL THEN NULL ELSE Epoch]

Histories(org, emp, maxLen) ==
  {{HistoryTask(i, org, emp, h[i]) : i \in DOMAIN h} :
     h \in UNION {[1..n -> TaskShapes] : n \in 0..maxLen}}

\* organization 1 has two employees; the first has a task history
InitWith(histories, scoreHistories) ==
  /\ now = Epoch
  /\ organizations = {[id |-> 1, email |-> "a@x.io"], [id |-> 2, email |-> "b@x.io"]}
  /\ employees = {EmployeeRow(1, 1, "a@x.io", "Developer", "Engineering", {"Python"}),
                  EmployeeRow(2, 1, "b@x.io", "Developer", "Engineering", {"Python"})}
  /\ tasks \in histories
  /\ productivity_scores \in scoreHistories
  /\ notifications = {}
  /\ role_requirements = {}
  /\ seq = [organizations |-> 2, employees |-> 2, tasks |-> MaxHistory, scores |-> 0]
  /\ inflight = <<>>
  /\ last = Resp("none", 0, "", {})

InitScore == InitWith(Histories(1, 1, MaxHistory), {{}})

NextScore ==
  \/ CalculateScore
  \/ InsertScoreRow
  \/ GetLatestScore

SpecScore == InitScore /\ [][NextScore]_vars

\* C3: every stored productivity score record has 0 <= score <= 100, and so
\* has every score that calculateScore builds from a task history
C3_ScoreRange ==
  /\ \A r \in productivity_scores : 0 <= r.score /\ r.score <= 10000
  /\ last.op = "calculateScore" =>
       \A sc \in last.computed : 0 <= sc.score /\ sc.score <= 10000

\* C3 witness: calculateScore stored the score 100 for a history whose tasks
\* are all completed, of high complexity, in 6 hours on average
C3_Witness ==
  /\ last.op = "calculateScore" /\ last.code = Returned
  /\ \E sc \in last.result :
       /\ sc.score = 10000 /\ sc.averageCompletionTime = 600
       /\ \E r \in productivity_scores :
            r.employee_id = sc.employeeId /\ r.score = sc.score

\* C5: calculateScore for an employee without any task in the organization
\* returns score 50 with all three factors 0, and stores exactly that as one
\* new record; it does so whenever the store fails no query and accepts the
\* record
C5_Baseline ==
  [][(/\ last'.op = "calculateScore"
      /\ TaskData(last'.org, last'.emp).total_tasks = 0) =>
       /\ (/\ last'.fail = "none"
           /\ ScoreFK(last'.org, last'.emp)
           /\ ScoreUnique(productivity_scores, last'.emp, now))
          => last'.code = Returned
       /\ last'.code = Returned =>
            /\ last'.result =
                 {[employeeId |-> last'.emp, score |-> 5000, completionRate |-> 0,
                   averageCompletionTime |-> 0, taskComplexityHandled |-> 0,
                   calculatedAt |-> now]}
            /\ \E r \in productivity_scores' :
                 /\ productivity_scores' \ productivity_scores = {r}
                 /\ r.organization_id = last'.org /\ r.employee_id = last'.emp
                 /\ r.score = 5000 /\ r.completion_rate = 0
                 /\ r.avg_completion_time = 0 /\ r.complexity_bonus = 0]_vars

\* C5 witness: the second employee, who has no task, was scored 50
C5_Witness ==
  /\ last.op = "calculateScore" /\ last.code = Returned /\ last.emp = 2
  /\ \E r \in productivity_scores : r.employee_id = 2 /\ r.score = 5000

\* ------------------------------------------------------- the score history
\* the first employee has no task, or one task of low complexity completed in
\* 6 hours
BatchHistories ==
  {{}, {HistoryTask(1, 1, 1, [status |-> "completed", complexity |-> "low", hours |-> 6])}}

InitBatch == InitWith(BatchHistories, {{}})

NextBatch ==
  \/ CalculateScore
  \/ BatchCalculateScores
  \/ GetLatestScore
  \/ GetAllScores
  \/ Tick

SpecBatch == InitBatch /\ [][NextBatch]_vars

\* C4: no step updates or deletes a stored score record; a successful
\* calculateScore adds exactly one record, for the organization and the
\* employee of the call; getLatestScore and getAllScores leave the records
\* as they are
C4_AppendOnly ==
  [][/\ productivity_scores \subseteq productivity_scores'
     /\ (last'.op = "calculateScore" /\ last'.code = Returned) =>
          \E r \in productivity_scores' :
            /\ productivity_scores' \ productivity_scores = {r}
            /\ r.organization_id = last'.org /\ r.employee_id = last'.emp
     /\ last'.op \in {"getLatestScore", "getAllScores"} =>
          productivity_scores' = productivity_scores]_vars

\* C4 witness: calculateScore returned, and the employee has the new record
\* next to an older one
C4_Witness ==
  /\ last.op = "calculateScore" /\ last.code = Returned
  /\ \E r1, r2 \in productivity_scores :
       /\ r1.employee_id = last.emp /\ r2.employee_id = last.emp
       /\ r1.calculated_at < r2.calculated_at /\ r2.calculated_at = now

\* C6: a batch in which calculateScore fails for some employees returns
\* without an error; every other listed employee gets exactly one new record,
\* and the employees whose calculation failed get none
C6_BatchContinues ==
  [][last'.op = "batchCalculateScores" =>
       /\ last'.failed # {} => last'.code = Returned
       /\ last'.code = Returned =>
            /\ \A e \in last'.listed \ last'.failed :
                 Cardinality({r \in productivity_scores' \ productivity_scores :
                                r.employee_id = e}) = 1
            /\ \A e \in last'.failed :
                 \A r \in productivity_scores' \ productivity_scores :
                   r.employee_id # e]_vars

\* C6 witness: a batch returned, one employee's calculation failed and the
\* other employee has a record of this instant
C6_Witness ==
  /\ last.op = "batchCalculateScores" /\ last.code = Returned
  /\ last.failed # {}
  /\ \E e \in last.listed \ last.failed :
       \E r \in productivity_scores : r.employee_id = e /\ r.calculated_at = now

\* ------------------------------------------------------- data store failures
\* the score records an employee can have from earlier days: one record per
\* day, the latest one day before the clock of the first state
ScoreSeries == {<<>>, <<0>>, <<5000, 5500, 6000, 6500>>, <<6500, 6000, 5500, 5000>>,
                <<7000, 7000, 7000, 7000>>}

SeriesRows(org, emp, series) ==
  {[id |-> 100 + i, organization_id |-> org, employee_id |-> emp,
    score |-> series[i], completion_rate |-> NULL, avg_completion_time |-> NULL,
    complexity_bonus |-> NULL,
    calculated_at |-> Epoch - HOURS_PER_DAY * (Len(series) - i + 1)] : i \in DOMAIN series}

\* the first employee has no task, or one task of high complexity completed
\* in 6 hours
FailHistories ==
  {{}, {HistoryTask(1, 1, 1, [status |-> "completed", complexity |-> "high", hours |-> 6])}}

InitFail == InitWith(FailHistories, {SeriesRows(1, 1, sr) : sr \in ScoreSeries})

NextFail ==
  \/ CalculateScore
  \/ PredictPerformanceTrend
  \/ RecommendEmployeesForTask

SpecFail == InitFail /\ [][NextFail]_vars

FailingOps == {"calculateScore", "predictPerformanceTrend", "recommendEmployeesForTask"}

\* C7 (as stated): whenever a query issued by calculateScore,
\* predictPerformanceTrend or recommendEmployeesForTask fails, the operation
\* fails with an error
C7_EveryFailurePropagates ==
  (last.op \in FailingOps /\ last.fail # "none") => last.code = Thrown

\* C7 (amended): calculateScore fails whenever one of its queries fails;
\* predictPerformanceTrend fails only with the employee lookup, answers a
\* failed history query with the insufficient-data result built on the default
\* 50, and a failed factor query with a result whose factors end with 'Unable
\* to determine specific factors'; recommendEmployeesForTask fails only with
\* the employee query, and takes 50 for the workload, productivity or
\* availability score whose query failed
C7_FailureHandling ==
  /\ (last.op = "calculateScore" /\ last.fail # "none") => last.code = Thrown
  /\ last.op = "predictPerformanceTrend" =>
       /\ last.fail = "employee" => last.code = Thrown
       /\ last.fail = "history" =>
            /\ last.code = Returned
            /\ last.result =
                 {[employeeId |-> last.emp, trend |-> "stable", confidence |-> {0},
                   currentScore |-> 5000, predictedScore |-> {5000}, dataPoints |-> 0,
                   contributingFactors |->
                     <<"Insufficient data for trend analysis (need 4+ scores)">>]}
       /\ last.fail \in FactorQueries =>
            /\ last.code = Returned
            /\ last.result # {}
            /\ \A res \in last.result :
                 /\ res.dataPoints >= 4
                 /\ res.contributingFactors[Len(res.contributingFactors)] =
                      "Unable to determine specific factors"
  /\ last.op = "recommendEmployeesForTask" =>
       /\ last.fail = "employees" => last.code = Thrown
       /\ last.fail \in {"workload", "productivity", "availability"} =>
            /\ last.code = Returned
            /\ \A recs \in last.result : \A i \in DOMAIN recs :
                 /\ last.fail = "workload" => recs[i].currentWorkload = 5
                 /\ last.fail = "productivity" => recs[i].productivityScore = 5000
                 /\ last.fail = "availability" =>
                      recs[i].suitabilityScore =
                        QRound(QAdd(QAdd(QMul(QInt(recs[i].skillsMatch), <<4, 10>>),
                                         QMul(QInt(100 - 10 * recs[i].currentWorkload),
                                              <<3, 10>>)),
                                    QAdd(QMul(QNorm(recs[i].productivityScore, 100),
                                              <<2, 10>>),
                                         QInt(5))))

\* C7 witness: the history query of predictPerformanceTrend failed for an
\* employee with four stored scores, and the call returned a result with
\* currentScore 50 and no data point
C7_Witness ==
  /\ last.op = "predictPerformanceTrend" /\ last.fail = "history"
  /\ last.code = Returned
  /\ Cardinality({r \in productivity_scores : r.employee_id = last.emp}) >= 4
  /\ \E res \in last.result : res.currentScore = 5000 /\ res.dataPoints = 0

\* ------------------------------------------------- requests that interleave
\* a request runs up to the await of its INSERT or UPDATE, other requests
\* run, and then its statement reaches the store
Pending(op, org, id, email) == [op |-> op, org |-> org, id |-> id, email |-> email]

Remove(q, i) == [j \in 1..(Len(q) - 1) |-> IF j < i THEN q[j] ELSE q[j + 1]]

\* AuthController.register up to the INSERT, for passwords of the given set;
\* the response keeps the password and the answer of validatePasswordStrength
RegisterBeginWith(passwords) ==
  \E raw \in RawEmails, password \in passwords :
    \E email \in {NormalizeEmail(raw)},
       passwordValidation \in {validatePasswordStrength(password)} :
      /\ Len(inflight) < MaxInflight
      /\ IF ~passwordValidation.valid
         THEN /\ last' = [Resp("Register", 0, "400", {})
                          EXCEPT !.request = password, !.result = {passwordValidation}]
              /\ UNCHANGED inflight
         ELSE IF OrgByEmail(email) # {}
         THEN /\ last' = [Resp("Register", 0, "409", {})
                          EXCEPT !.request = password, !.result = {passwordValidation}]
              /\ UNCHANGED inflight
         ELSE /\ inflight' = Append(inflight, Pending("Register", 0, 0, {email}))
              /\ last' = [Resp("await", 0, "", {})
                          EXCEPT !.request = password, !.result = {passwordValidation}]
      /\ UNCHANGED <<tables, seq, now, role_requirements>>

RegisterBegin == RegisterBeginWith(Passwords)

RegisterEnd ==
  \E i \in DOMAIN inflight :
    /\ inflight[i].op = "Register"
    /\ \E email \in inflight[i].email : RegisterInsert(email)
    /\ inflight' = Remove(inflight, i)
    /\ UNCHANGED <<employees, tasks, productivity_scores, notifications, now, role_requirements>>

\* EmployeeController.create up to the INSERT
EmployeeCreateBegin ==
  \E token \in Tokens, raw \in RawEmails :
    \E org \in authenticateToken(token) :
      LET email == NormalizeEmail(raw)
      IN /\ Len(inflight) < MaxInflight
         /\ IF EmployeeByEmail(org, email) # {}
            THEN /\ last' = Resp("EmployeeCreate", org, "409", {})
                 /\ UNCHANGED inflight
            ELSE /\ inflight' = Append(inflight, Pending("EmployeeCreate", org, 0, {email}))
                 /\ last' = Resp("await", org, "", {})
         /\ UNCHANGED <<tables, seq, now, role_requirements>>

EmployeeCreateEnd ==
  \E i \in DOMAIN inflight, role \in Roles, department \in Departments,
     skills \in SkillSets :
    /\ inflight[i].op = "EmployeeCreate"
    /\ \E email \in inflight[i].email :
         EmployeeInsert(inflight[i].org, email, role, department, skills)
    /\ inflight' = Remove(inflight, i)
    /\ UNCHANGED <<organizations, tasks, productivity_scores, notifications, now, role_requirements>>

\* EmployeeController.update up to the UPDATE
EmployeeUpdateBegin ==
  \E token \in Tokens, id \in EmployeeIds,
     rawEmail \in {{}} \cup {{r} : r \in RawEmails} :
    \E org \in authenticateToken(token) :
      /\ Len(inflight) < MaxInflight
      /\ IF EmployeeInOrg(id, org) = {}
         THEN /\ last' = Resp("EmployeeUpdate", org, "404", {})
              /\ UNCHANGED inflight
         ELSE /\ inflight' = Append(inflight,
                               Pending("EmployeeUpdate", org, id,
                                       {NormalizeEmail(r) : r \in rawEmail}))
              /\ last' = Resp("await", org, "", {})
      /\ UNCHANGED <<tables, seq, now, role_requirements>>

EmployeeUpdateEnd ==
  \E i \in DOMAIN inflight :
    /\ inflight[i].op = "EmployeeUpdate"
    /\ EmployeeUpdateWrite(inflight[i].org, inflight[i].id, inflight[i].email, {}, {})
    /\ inflight' = Remove(inflight, i)
    /\ UNCHANGED <<organizations, tasks, productivity_scores, notifications, seq, now, role_requirements>>

\* nothing is registered yet
InitUnique ==
  /\ now = Epoch
  /\ organizations = {}
  /\ employees = {}
  /\ tasks = {}
  /\ productivity_scores = {}
  /\ notifications = {}
  /\ role_requirements = {}
  /\ seq = [organizations |-> 0, employees |-> 0, tasks |-> 0, scores |-> 0]
  /\ inflight = <<>>
  /\ last = Resp("none", 0, "", {})

NextUnique ==
  \/ RegisterBegin
  \/ RegisterEnd
  \/ EmployeeCreateBegin
  \/ EmployeeCreateEnd
  \/ EmployeeUpdateBegin
  \/ EmployeeUpdateEnd

SpecUnique == InitUnique /\ [][NextUnique]_vars

\* C9: no two organizations have the same email, no two employees of one
\* organization have the same email, and a register, create-employee or
\* update-employee request that is refused (409) or fails (500) leaves the
\* organizations and the employees as they were
C9_UniqueEmails ==
  /\ [](\A o1, o2 \in organizations : o1.email = o2.email => o1.id = o2.id)
  /\ [](\A e1, e2 \in employees :
          (e1.organization_id = e2.organization_id /\ e1.email = e2.email)
            => e1.id = e2.id)
  /\ [][(/\ last'.op \in {"Register", "EmployeeCreate", "EmployeeUpdate"}
         /\ last'.code \in {"409", "500"})
        => (organizations' = organizations /\ employees' = employees)]_vars

\* C9 witness: two registrations with the same email both passed the SELECT
\* before either was stored; the second INSERT failed, and one organization
\* has that email
C9_Witness ==
  /\ last.op = "Register" /\ last.code = "500"
  /\ Cardinality({o \in organizations : o.email = "b@x.io"}) = 1

\* ------------------------------------------------------ the task life cycle
NextTask ==
  \/ TaskCreate
  \/ TaskGetOne
  \/ TaskUpdate
  \/ TaskUpdateStatus
  \/ TaskDelete
  \/ GetProductivityScore
  \/ Tick

SpecTask == Init /\ [][NextTask]_vars

\* the status changes of the tasks that exist before and after a step
StatusChanges ==
  {<<t.status, u.status>> : <<t, u>> \in
     {p \in tasks \X tasks' : p[1].id = p[2].id /\ p[1].status # p[2].status}}

\* C1 (as stated): a task is created 'assigned', its status only ever changes
\* assigned -> in_progress or in_progress -> completed, and an updateStatus
\* request answered 400 leaves the tasks unchanged
C1_OnlyLinearTransitions ==
  [][/\ \A u \in tasks' : (\A t \in tasks : t.id # u.id) => u.status = "assigned"
     /\ StatusChanges \subseteq {<<"assigned", "in_progress">>,
                                 <<"in_progress", "completed">>}
     /\ (last'.op = "TaskUpdateStatus" /\ last'.code = "400") => tasks' = tasks]_vars

\* C1 (amended): a task is created 'assigned'; its status only ever changes
\* assigned -> in_progress, assigned -> completed or in_progress -> completed;
\* an updateStatus request that names the current status of the task is
\* answered 200 and leaves the status as it is; every other request for a
\* task of the organization is answered 400 and leaves the tasks unchanged
C1_Transitions ==
  [][/\ \A u \in tasks' : (\A t \in tasks : t.id # u.id) => u.status = "assigned"
     /\ StatusChanges \subseteq {<<"assigned", "in_progress">>,
                                 <<"assigned", "completed">>,
                                 <<"in_progress", "completed">>}
     /\ last'.op = "TaskUpdateStatus" =>
          /\ last'.code = "400" => tasks' = tasks
          /\ \A t \in TaskInOrg(last'.id, last'.org) :
               LET change == <<t.status, last'.status>>
               IN IF change \in {<<"assigned", "in_progress">>,
                                 <<"assigned", "completed">>,
                                 <<"in_progress", "completed">>}
                  THEN \E u \in tasks' : u.id = t.id /\ u.status = last'.status
                  ELSE IF t.status = last'.status
                  THEN last'.code = "200" /\ t \in {[u EXCEPT !.completed_at = t.completed_at] : u \in tasks'}
                  ELSE last'.code = "400" /\ tasks' = tasks]_vars

\* C1 witness: a completed task, and a request to reopen it that was refused
C1_Witness ==
  /\ last.op = "TaskUpdateStatus" /\ last.code = "400" /\ last.status = "in_progress"
  /\ \E t \in tasks : t.id = last.id /\ t.status = "completed"

\* C2: whenever updateStatus moves a task to 'completed', a new
\* productivity_scores record is stored for the assignee by that request
C2_RecalculationOnCompletion ==
  [][\A t \in tasks, u \in tasks' :
       (/\ last'.op = "TaskUpdateStatus"
        /\ u.id = t.id /\ t.status # "completed" /\ u.status = "completed")
       => \E r \in productivity_scores' \ productivity_scores :
            r.employee_id = t.assigned_to]_vars

\* ------------------------------------------------------- performance trends
\* score histories of the first employee, one record per day: none, a single
\* 0, three records, 50 55 60 65, its reverse, a flat one, ten records rising
\* by 1 a day, and two that zigzag
TrendSeries ==
  {<<>>, <<0>>, <<4000, 0, 6000>>, <<5000, 5500, 6000, 6500>>, <<6500, 6000, 5500, 5000>>,
   <<7000, 7000, 7000, 7000>>,
   <<5000, 5100, 5200, 5300, 5400, 5500, 5600, 5700, 5800, 5900>>,
   <<0, 10000, 0, 10000>>, <<10000, 10000, 0, 100>>}

InitTrend == InitWith({{}}, {SeriesRows(1, 1, sr) : sr \in TrendSeries})

NextTrend ==
  \/ PredictPerformanceTrend
  \/ InsertScoreRow

SpecTrend == InitTrend /\ [][NextTrend]_vars

\* the records getHistoricalScores finds for the employee of the last request
WindowRows ==
  {r \in productivity_scores : /\ r.employee_id = last.emp
                               /\ r.organization_id = last.org
                               /\ r.calculated_at > now - HISTORY_DAYS * HOURS_PER_DAY}

\* the score of the most recent record found, or 50 when there is none
LastKnownScore ==
  IF WindowRows = {} THEN BASELINE_SCORE * 100
  ELSE (CHOOSE r \in WindowRows :
          \A x \in WindowRows : x.calculated_at <= r.calculated_at).score

WindowSlope ==
  calculateLinearRegression(getHistoricalScores(last.emp, last.org, FALSE)).slope

\* the scores of the records found, oldest first
WindowScores ==
  [i \in 1..Cardinality(WindowRows) |-> SortByDate(WindowRows)[i].score]

\* C12: with at least 4 records, the trend is 'improving' iff the slope is
\* above 0.5, 'declining' iff it is below -0.5, else 'stable'; 50 55 60 65 on
\* four consecutive days is 'improving' with confidence 100, ten records
\* rising by 1 a day are 'improving', and a flat series is 'stable'
C12_SlopeClassification ==
  (/\ last.op = "predictPerformanceTrend" /\ last.fail = "none"
   /\ Cardinality(WindowRows) >= MIN_DATA_POINTS)
  => \A r \in last.result :
       /\ r.trend = "improving" <=> QLess(<<1, 2>>, WindowSlope)
       /\ r.trend = "declining" <=> QLess(WindowSlope, <<-1, 2>>)
       /\ r.trend \in {"improving", "declining", "stable"}
       /\ WindowScores = <<5000, 5500, 6000, 6500>>
            => r.trend = "improving" /\ r.confidence = {100}
       /\ WindowScores = <<5000, 5100, 5200, 5300, 5400, 5500, 5600, 5700, 5800, 5900>>
            => r.trend = "improving"
       /\ WindowScores = <<7000, 7000, 7000, 7000>> => r.trend = "stable"

\* the regression over the records found, and its line 7 days after the last
WindowRegression ==
  calculateLinearRegression(getHistoricalScores(last.emp, last.org, FALSE))

WindowLastX ==
  LET pts == getHistoricalScores(last.emp, last.org, FALSE)
  IN QNorm(pts[Len(pts)].date - pts[1].date, HOURS_PER_DAY)

\* C13: with at least 4 records, predictedScore and confidence are integers
\* in [0,100], and predictedScore is the regression line 7 days after the last
\* record, rounded and clamped (scores are kept in hundredths)
C13_PredictionRange ==
  (/\ last.op = "predictPerformanceTrend" /\ last.fail = "none"
   /\ Cardinality(WindowRows) >= MIN_DATA_POINTS)
  => \A r \in last.result :
       /\ \E c \in 0..100 : r.confidence = {c}
       /\ \E p \in 0..100 : r.predictedScore = {100 * p}
       /\ r.predictedScore =
            {100 * Max(0, Min(100, QRound(QAdd(QMul(WindowRegression.slope,
                                                    QAdd(WindowLastX, QInt(DAYS_AHEAD))),
                                               WindowRegression.intercept))))}

\* ------------------------------------------------------------------ strings
UpperLetters == "ABCDEFGHIJKLMNOPQRSTUVWXYZ"
LowerLetters == "abcdefghijklmnopqrstuvwxyz"

\* the lower-case letter of every upper-case letter
LowerOf ==
  [c \in {SubSeq(UpperLetters, i, i) : i \in 1..Len(UpperLetters)} |->
     Only({SubSeq(LowerLetters, i, i) : i \in {j \in 1..Len(UpperLetters) :
                                                 SubSeq(UpperLetters, j, j) = c}})]

\* toLowerCase of one character
LowerChar(c) == IF c \in DOMAIN LowerOf THEN LowerOf[c] ELSE c

\* String.prototype.toLowerCase
RECURSIVE toLowerCase(_)
toLowerCase(s) ==
  Only({IF t = "" THEN "" ELSE LowerChar(Head(t)) \o toLowerCase(Tail(t)) : t \in {s}})

\* String.prototype.includes
includes(s, sub) ==
  \E i \in 0..(Len(s) - Len(sub)) : SubSeq(s, i + 1, i + Len(sub)) = sub

\* --------------------------------------------------------- skill gap service
\* the columns of table role_requirements
RoleRequirementColumns == {"id", "role_name", "required_skills", "priority_skills"}

RoleRequirementRow(id, roleName, requiredSkills) ==
  [id |-> id, role_name |-> roleName, required_skills |-> requiredSkills,
   priority_skills |-> <<>>]

\* the built-in table of getDefaultSkillsForRole, in the order of its keys
defaultSkills ==
  <<[key |-> "frontend developer",
     skills |-> <<"JavaScript", "HTML", "CSS", "React", "TypeScript">>],
    [key |-> "backend developer",
     skills |-> <<"Node.js", "Python", "SQL", "API Design", "Database">>],
    [key |-> "full stack developer",
     skills |-> <<"JavaScript", "Node.js", "React", "SQL", "API Design">>],
    [key |-> "product manager",
     skills |-> <<"Product Strategy", "Agile", "User Research", "Analytics">>],
    [key |-> "designer",
     skills |-> <<"Figma", "UI/UX", "Prototyping", "Design Systems">>],
    [key |-> "ui/ux designer",
     skills |-> <<"Figma", "Sketch", "Prototyping", "User Research">>],
    [key |-> "data scientist",
     skills |-> <<"Python", "Machine Learning", "Statistics", "SQL">>],
    [key |-> "devops engineer",
     skills |-> <<"Docker", "Kubernetes", "CI/CD", "AWS", "Linux">>],
    [key |-> "qa engineer",
     skills |-> <<"Testing", "Automation", "Selenium", "Jest">>],
    [key |-> "mobile developer",
     skills |-> <<"React Native", "iOS", "Android", "Mobile UI">>]>>

GenericSkills == <<"Communication", "Problem Solving", "Teamwork">>

\* getDefaultSkillsForRole: the skills of the first key that contains the
\* role or is contained in it, else the generic skills
getDefaultSkillsForRole(role) ==
  Only({LET hits == {i \in DOMAIN defaultSkills :
                       \/ includes(roleLower, defaultSkills[i].key)
                       \/ includes(defaultSkills[i].key, roleLower)}
        IN IF hits = {} THEN GenericSkills
           ELSE defaultSkills[CHOOSE i \in hits : \A j \in hits : i <= j].skills :
          roleLower \in {toLowerCase(role)}})

\* SELECT skills FROM role_requirements WHERE LOWER(role_name) = LOWER($1):
\* the rows found, or {} with failed when the store rejects the query, which
\* it does for a column the table does not have
RoleRequirementsQuery(role, fail) ==
  IF fail \/ "skills" \notin RoleRequirementColumns
  THEN [failed |-> TRUE, rows |-> {}]
  ELSE [failed |-> FALSE,
        rows |-> {r \in role_requirements : toLowerCase(r.role_name) = toLowerCase(role)}]

\* getRoleRequirements: the skill lists the call can give back (rows[0] is any
\* of the rows found)
getRoleRequirements(role, fail) ==
  Only({IF q.failed \/ q.rows = {} THEN {getDefaultSkillsForRole(role)}
        ELSE {r["skills"] : r \in q.rows} :
          q \in {RoleRequirementsQuery(role, fail)}})

criticalKeywords == {"javascript", "python", "java", "sql", "react", "node"}
highKeywords == {"typescript", "api", "database", "testing", "git"}
mediumKeywords == {"agile", "scrum", "ci/cd", "docker"}

determineSkillPriority(skill, role, requiredSkills) ==
  Only({IF \E keyword \in criticalKeywords : includes(skillLower, keyword) THEN "critical"
        ELSE IF \E keyword \in highKeywords : includes(skillLower, keyword) THEN "high"
        ELSE IF \E keyword \in mediumKeywords : includes(skillLower, keyword) THEN "medium"
        ELSE "low" : skillLower \in {toLowerCase(skill)}})

priorityOrder == [critical |-> 0, high |-> 1, medium |-> 2, low |-> 3]

\* mutant: the skill is looked for as it is written
HasSkill_CaseSensitive(currentSkills, requiredSkill) ==
  \E skill \in currentSkills : skill = requiredSkill

\* whether currentSkills has the required skill, letter case apart
HasSkill(currentSkills, requiredSkill) ==
  \E skill \in currentSkills : toLowerCase(skill) = toLowerCase(requiredSkill)

\* the loop of calculateEmployeeSkillGap: the gaps in the order of requiredSkills
MissingSkills(currentSkills, role, requiredSkills) ==
  LET gap(s) == [skill |-> s, priority |-> determineSkillPriority(s, role, requiredSkills)]
      miss(s) == ~HasSkill(currentSkills, s)
      missing == SelectSeq(requiredSkills, miss)
  IN [i \in 1..Len(missing) |-> gap(missing[i])]

\* mutant: the gaps are left in the order of requiredSkills
SortByPriority_Unsorted(gaps) == gaps

\* Array.prototype.sort on priorityOrder, which is stable: gaps of one
\* priority keep their order
SortByPriority(gaps) ==
  LET of(p) == LET is(g) == priorityOrder[g.priority] = p IN SelectSeq(gaps, is)
  IN of(0) \o of(1) \o of(2) \o of(3)

\* mutant: the share of the skills the employee has
SkillGapScore_Present(missingCount, totalRequired) ==
  IF totalRequired > 0
  THEN QRound(QMul(QNorm(totalRequired - missingCount, totalRequired), QInt(100)))
  ELSE 0

SkillGapScore(missingCount, totalRequired) ==
  IF totalRequired > 0
  THEN QRound(QMul(QNorm(missingCount, totalRequired), QInt(100)))
  ELSE 0

\* the EmployeeSkillGap built from an employee row and the required skills
EmployeeSkillGap(employee, requiredSkills) ==
  Only({[employeeId |-> employee.id, role |-> employee.role,
         currentSkills |-> employee.skills,
         missingSkills |-> SortByPriority(missingSkills),
         skillGapScore |-> SkillGapScore(Len(missingSkills), Len(requiredSkills))] :
          missingSkills \in {MissingSkills(employee.skills, employee.role, requiredSkills)}})

SkillGapFailures == {"none", "employee", "requirements"}

\* calculateEmployeeSkillGap: the results the call can give back ({} is null)
calculateEmployeeSkillGap(employeeId, organizationId, fail) ==
  IF fail = "employee" THEN {[code |-> Thrown, result |-> {}]}
  ELSE IF EmployeeInOrg(employeeId, organizationId) = {}
  THEN {[code |-> Returned, result |-> {}]}
  ELSE {[code |-> Returned, result |-> {EmployeeSkillGap(employee, requiredSkills)}] :
          employee \in EmployeeInOrg(employeeId, organizationId),
          requiredSkills \in UNION {getRoleRequirements(e.role, fail = "requirements") :
                                      e \in EmployeeInOrg(employeeId, organizationId)}}

CalculateEmployeeSkillGap ==
  \E org \in OrgIds, emp \in EmployeeIds, fail \in SkillGapFailures :
    \E out \in calculateEmployeeSkillGap(emp, org, fail) :
      /\ last' = [Resp("calculateEmployeeSkillGap", org, out.code,
                       IF out.result = {} THEN {} ELSE {org})
                  EXCEPT !.emp = emp, !.result = out.result,
                         !.fail = IF out.code = Thrown THEN fail ELSE "none"]
      /\ UNCHANGED <<tables, seq, now, inflight, role_requirements>>

\* the roles and skill sets of the employee whose skill gap is analysed
GapRoles == {"Frontend Developer", "DevOps Engineer", "Accountant"}
GapSkillSets ==
  {{}, {"JavaScript"}, {"JavaScript", "SQL"}, {"JavaScript", "SQL", "html"},
   {"JavaScript", "SQL", "html", "React"}, {"JavaScript", "html", "CSS", "React", "TypeScript"},
   {"Docker"}, {"Docker", "ci/cd"}, {"Teamwork"}}

\* the catalog holds no entry, or one for the role of the employee
Catalogs(role) ==
  {{}, {RoleRequirementRow(1, toLowerCase(role), <<"Rust", "SQL">>)}}

InitSkill ==
  /\ now = Epoch
  /\ organizations = {[id |-> 1, email |-> "a@x.io"], [id |-> 2, email |-> "b@x.io"]}
  /\ \E role \in GapRoles, skills \in GapSkillSets :
       /\ employees = {EmployeeRow(1, 1, "a@x.io", role, "Engineering", skills)}
       /\ role_requirements \in Catalogs(role)
  /\ tasks = {}
  /\ productivity_scores = {}
  /\ notifications = {}
  /\ seq = [organizations |-> 2, employees |-> 1, tasks |-> 0, scores |-> 0]
  /\ inflight = <<>>
  /\ last = Resp("none", 0, "", {})

EmployeeUpdateSkills == EmployeeUpdateWith({}, GapSkillSets)

NextSkill ==
  \/ CalculateEmployeeSkillGap
  \/ EmployeeUpdateSkills

SpecSkill == InitSkill /\ [][NextSkill]_vars

\* the required skills of a role as the claims state them: the built-in table
RequiredSkillsOf(role) == getDefaultSkillsForRole(role)

\* the required skills no skill of the set equals, letter case apart
MissingOf(skills, required) ==
  {i \in DOMAIN required : ~\E s \in skills : toLowerCase(s) = toLowerCase(required[i])}

\* C14: skillGapScore = round(missingCount / requiredCount * 100), 0 when no
\* skill is required; for skills JavaScript, SQL and role 'Frontend Developer'
\* the missing skills are HTML, CSS, React, TypeScript and the score is 80
C14_SkillGapScore ==
  last.op = "calculateEmployeeSkillGap" =>
    \A r \in last.result :
      LET required == RequiredSkillsOf(r.role)
          missing == MissingOf(r.currentSkills, required)
      IN /\ {g.skill : g \in {r.missingSkills[i] : i \in DOMAIN r.missingSkills}}
              = {required[i] : i \in missing}
         /\ Len(r.missingSkills) = Cardinality(missing)
         /\ r.skillGapScore =
              IF Len(required) = 0 THEN 0
              ELSE (200 * Cardinality(missing) + Len(required)) \div (2 * Len(required))
         /\ (r.role = "Frontend Developer" /\ r.currentSkills = {"JavaScript", "SQL"})
              => /\ {r.missingSkills[i].skill : i \in DOMAIN r.missingSkills}
                      = {"HTML", "CSS", "React", "TypeScript"}
                 /\ r.skillGapScore = 80

\* C14 witness: the analysis of a Frontend Developer with JavaScript and SQL
\* answered 80
C14_Witness ==
  /\ last.op = "calculateEmployeeSkillGap"
  /\ \E r \in last.result :
       /\ r.role = "Frontend Developer" /\ r.currentSkills = {"JavaScript", "SQL"}
       /\ r.skillGapScore = 80 /\ Len(r.missingSkills) = 4

\* the skillGapScore the analysis gives for an employee row
GapScoreOf(e) ==
  Only({EmployeeSkillGap(e, required).skillGapScore :
          required \in getRoleRequirements(e.role, FALSE)})

\* C15: when an update adds skills to an employee, the skillGapScore does not
\* rise, and it falls when one of the added skills is a required skill that
\* was missing
C15_Monotonic ==
  [][\A e \in employees, f \in employees' :
       (/\ f.id = e.id /\ f.role = e.role
        /\ e.skills \subseteq f.skills /\ e.skills # f.skills)
       => \A required \in {RequiredSkillsOf(e.role)} :
            \A before \in {GapScoreOf(e)}, after \in {GapScoreOf(f)} :
              /\ after <= before
              /\ MissingOf(e.skills, required) \ MissingOf(f.skills \ e.skills, required) # {}
                   => after < before]_vars

\* C15 witness: after an update, a Frontend Developer has JavaScript, SQL and
\* html, and the score is 60
C15_Witness ==
  /\ last.op = "EmployeeUpdate" /\ last.code = "200"
  /\ \E e \in employees :
       /\ e.role = "Frontend Developer" /\ e.skills = {"JavaScript", "SQL", "html"}
       /\ GapScoreOf(e) = 60

\* the place of a skill in a list of required skills
PositionIn(required, skill) == CHOOSE i \in DOMAIN required : required[i] = skill

\* C16: missingSkills lists the critical gaps first, then high, medium and
\* low, and two gaps of one priority stand in the order their skills have in
\* the required skills of the role
C16_PriorityOrder ==
  last.op = "calculateEmployeeSkillGap" =>
    \A r \in last.result :
      \A i, j \in DOMAIN r.missingSkills :
        i < j =>
          /\ priorityOrder[r.missingSkills[i].priority]
               <= priorityOrder[r.missingSkills[j].priority]
          /\ r.missingSkills[i].priority = r.missingSkills[j].priority
               => PositionIn(RequiredSkillsOf(r.role), r.missingSkills[i].skill)
                    < PositionIn(RequiredSkillsOf(r.role), r.missingSkills[j].skill)

\* C16 witness: a Frontend Developer without skills is told JavaScript and
\* React (critical), then TypeScript (high), then HTML and CSS (low)
C16_Witness ==
  /\ last.op = "calculateEmployeeSkillGap"
  /\ \E r \in last.result :
       /\ r.role = "Frontend Developer"
       /\ r.missingSkills =
            <<[skill |-> "JavaScript", priority |-> "critical"],
              [skill |-> "React", priority |-> "critical"],
              [skill |-> "TypeScript", priority |-> "high"],
              [skill |-> "HTML", priority |-> "low"],
              [skill |-> "CSS", priority |-> "low"]>>

\* the catalog entries for a role, letter case apart
CatalogEntries(role) ==
  {c \in role_requirements : toLowerCase(c.role_name) = toLowerCase(role)}

\* C17: when the catalog has an entry for the role of the employee, the
\* analysis works with the required skills of that entry, and with the
\* built-in table (or the generic skills) only when the catalog has none
C17_CatalogFirst ==
  last.op = "calculateEmployeeSkillGap" =>
    \A r \in last.result :
      \E required \in IF CatalogEntries(r.role) = {} THEN {getDefaultSkillsForRole(r.role)}
                      ELSE {c.required_skills : c \in CatalogEntries(r.role)} :
        /\ {r.missingSkills[i].skill : i \in DOMAIN r.missingSkills}
             = {required[i] : i \in MissingOf(r.currentSkills, required)}
        /\ r.skillGapScore = SkillGapScore(Cardinality(MissingOf(r.currentSkills, required)),
                                           Len(required))

\* ------------------------------------------------- assignment recommendations
MaxLoad == 11
LoadCounts == {0, 1, 5, 9, 10, MaxLoad}

\* n tasks of the employee in status 'assigned' or 'in_progress' and k tasks
\* completed in 6 hours at the clock of the first state
Load(emp, n, k) ==
  {HistoryTask(100 * emp + i, 1, emp,
               [status |-> IF i % 2 = 0 THEN "in_progress" ELSE "assigned",
                complexity |-> "medium", hours |-> NULL]) : i \in 1..n} \cup
  {HistoryTask(100 * emp + 50 + i, 1, emp,
               [status |-> "completed", complexity |-> "low", hours |-> 6]) : i \in 1..k}

SmallTeam ==
  {EmployeeRow(1, 1, "e1@x.io", "Developer", "Engineering", {"Python", "SQL"}),
   EmployeeRow(2, 1, "e2@x.io", "Analyst", "Sales", {"python"})}

\* six active employees of organization 1, one inactive employee, and one
\* employee of organization 2
LargeTeam ==
  SmallTeam \cup
  {EmployeeRow(3, 1, "e3@x.io", "Developer", "Engineering", {}),
   EmployeeRow(4, 1, "e4@x.io", "Analyst", "Sales", {"SQL"}),
   EmployeeRow(5, 1, "e5@x.io", "Analyst", "Sales", {"Python"}),
   EmployeeRow(6, 1, "e6@x.io", "Developer", "engineering", {"Python", "SQL"}),
   [EmployeeRow(7, 1, "e7@x.io", "Developer", "Engineering", {"Python", "SQL"})
      EXCEPT !.is_active = FALSE],
   EmployeeRow(8, 2, "e8@x.io", "Developer", "Engineering", {"Python", "SQL"})}

AssignSeries == {<<>>, <<6550>>, <<8000, 3000>>}

\* the small team with every load and score series of the first employee; the
\* large team with the first employee idle or at capacity
AssignConfigs ==
  {[team |-> SmallTeam, tasks |-> Load(1, n, 1) \cup Load(2, 2, 3),
    scores |-> SeriesRows(1, 1, sr)] : n \in LoadCounts, sr \in AssignSeries} \cup
  {[team |-> SmallTeam, tasks |-> Load(1, 5, k) \cup Load(2, 5, k),
    scores |-> SeriesRows(1, 1, <<6550>>)] : k \in 0..3} \cup
  {[team |-> LargeTeam, tasks |-> Load(1, n, 0) \cup Load(2, 0, 2) \cup Load(3, 3, 0),
    scores |-> SeriesRows(1, 1, <<6550>>)] : n \in {0, 10}}

InitAssign ==
  /\ now = Epoch
  /\ organizations = {[id |-> 1, email |-> "a@x.io"], [id |-> 2, email |-> "b@x.io"]}
  /\ \E cfg \in AssignConfigs :
       /\ employees = cfg.team
       /\ tasks = cfg.tasks
       /\ productivity_scores = cfg.scores
  /\ notifications = {}
  /\ role_requirements = {}
  /\ seq = [organizations |-> 2, employees |-> 8, tasks |-> 1000,
            scores |-> MaxScores - 1]
  /\ inflight = <<>>
  /\ last = Resp("none", 0, "", {})

NextAssign ==
  \/ RecommendEmployeesForTask
  \/ InsertScoreRow

SpecAssign == InitAssign /\ [][NextAssign]_vars

ActiveTasksOf(emp, org) ==
  Cardinality({t \in tasks : /\ t.assigned_to = emp /\ t.organization_id = org
                             /\ t.status \in {"assigned", "in_progress"}})

RecentCompletionsOf(emp, org) ==
  Cardinality({t \in tasks : /\ t.assigned_to = emp /\ t.organization_id = org
                             /\ t.status = "completed" /\ t.completed_at # NULL
                             /\ t.completed_at > now - 7 * 24})

\* the workload score the specification gives for n active tasks
WorkloadFor(n) == IF n = 0 THEN 100 ELSE IF n >= 10 THEN 0 ELSE 100 - 10 * n

AvailabilityFor(k) == IF k >= 3 THEN 100 ELSE IF k = 2 THEN 80 ELSE IF k = 1 THEN 60 ELSE 40

\* the most recent stored score of the employee, in hundredths, or 50
StoredOrDefault(emp, org) ==
  LET rows == {r \in productivity_scores : r.employee_id = emp /\ r.organization_id = org}
  IN IF rows = {} THEN 5000
     ELSE (CHOOSE r \in rows : \A x \in rows : x.calculated_at <= r.calculated_at).score

\* round(sm*0.4 + w*0.3 + p*0.2 + a*0.1) with p in hundredths
WeightedRound(sm, w, p, a) == (400 * sm + 300 * w + 2 * p + 100 * a + 500) \div 1000

\* C18: every candidate that recommendEmployeesForTask returns has a
\* suitabilityScore in [0,100]; when no query of the request failed, its
\* productivityScore is the most recent stored score of the employee or 50 when
\* there is none, and its suitabilityScore is
\* round(skillsMatch*0.4 + workload*0.3 + productivityScore*0.2 + availability*0.1)
C18_Suitability ==
  (last.op = "recommendEmployeesForTask" /\ last.code = Returned) =>
    \A list \in last.result : \A i \in DOMAIN list :
      /\ 0 <= list[i].suitabilityScore /\ list[i].suitabilityScore <= 100
      /\ last.fail = "none" =>
           /\ list[i].productivityScore = StoredOrDefault(list[i].employeeId, last.org)
           /\ list[i].suitabilityScore =
                WeightedRound(list[i].skillsMatch,
                              WorkloadFor(ActiveTasksOf(list[i].employeeId, last.org)),
                              list[i].productivityScore,
                              AvailabilityFor(RecentCompletionsOf(list[i].employeeId, last.org)))

\* C18 witness: a request without failures returned an employee whose latest
\* stored score is 65.5, with every required skill, 5 active tasks and one
\* recent completion: round(40 + 15 + 13.1 + 6) = 74
C18_Witness ==
  /\ last.op = "recommendEmployeesForTask" /\ last.code = Returned /\ last.fail = "none"
  /\ \E list \in last.result : \E i \in DOMAIN list :
       /\ list[i].productivityScore = 6550 /\ list[i].skillsMatch = 100
       /\ ActiveTasksOf(list[i].employeeId, last.org) = 5
       /\ RecentCompletionsOf(list[i].employeeId, last.org) = 1
       /\ list[i].suitabilityScore = 74

\* the active employees of the organization, of the department when the
\* request names one
CandidatesFor(org, department) ==
  {e \in employees :
     /\ e.organization_id = org /\ e.is_active
     /\ \A d \in department : toLowerCase(e.department) = toLowerCase(d)}

\* round(matched / total * 100), 100 when no skill is required
SkillsMatchFor(skills, required) ==
  IF required = <<>> THEN 100
  ELSE LET matched == Cardinality({i \in DOMAIN required :
                                     \E s \in skills :
                                       toLowerCase(s) = toLowerCase(required[i])})
       IN (200 * matched + Len(required)) \div (2 * Len(required))

\* the suitabilityScore of an employee for the request of the last response; a
\* sub-score whose query failed is 50
SuitabilityFor(e) ==
  WeightedRound(SkillsMatchFor(e.skills, last.request.requiredSkills),
                IF last.fail = "workload" THEN 50
                ELSE WorkloadFor(ActiveTasksOf(e.id, last.org)),
                IF last.fail = "productivity" THEN 5000
                ELSE StoredOrDefault(e.id, last.org),
                IF last.fail = "availability" THEN 50
                ELSE AvailabilityFor(RecentCompletionsOf(e.id, last.org)))

\* the returned list holds at most 5 distinct candidates, as many as there are
\* when fewer, in descending order of suitabilityScore (strictly descending
\* when strict), and no candidate left out scores higher than a returned one
RankedTop(strict) ==
  (last.op = "recommendEmployeesForTask" /\ last.code = Returned) =>
    \A list \in last.result :
      LET cands == CandidatesFor(last.org, last.request.department)
          returned == {list[i].employeeId : i \in DOMAIN list}
      IN /\ Len(list) <= 5
         /\ Len(list) = IF Cardinality(cands) < 5 THEN Cardinality(cands) ELSE 5
         /\ Cardinality(returned) = Len(list)
         /\ returned \subseteq {e.id : e \in cands}
         /\ \A i, j \in DOMAIN list :
              i < j => IF strict
                       THEN list[i].suitabilityScore > list[j].suitabilityScore
                       ELSE list[i].suitabilityScore >= list[j].suitabilityScore
         /\ \A e \in cands :
              /\ e.id \in returned =>
                   \E i \in DOMAIN list : /\ list[i].employeeId = e.id
                                          /\ list[i].suitabilityScore = SuitabilityFor(e)
              /\ e.id \notin returned =>
                   \A i \in DOMAIN list : SuitabilityFor(e) <= list[i].suitabilityScore

\* C19 (as stated): recommendEmployeesForTask returns at most 5 candidates in
\* strictly descending order of suitabilityScore, and they are the
\* highest-scoring active employees of the organization (of the requested
\* department when one is given)
C19_StrictlyDescending == RankedTop(TRUE)

\* C19 (amended): recommendEmployeesForTask returns at most 5 candidates in
\* descending order of suitabilityScore in which candidates of equal score may
\* follow each other; they are the highest-scoring active employees of the
\* organization (of the requested department when one is given): no employee
\* left out has a higher suitabilityScore than one returned
C19_TopFive == RankedTop(FALSE)

\* C19 witness: of six active employees five were returned, two of them with
\* the same suitabilityScore and one with a lower one, and the employee left
\* out scores lower than every returned one
C19_Witness ==
  /\ last.op = "recommendEmployeesForTask" /\ last.code = Returned
  /\ \E list \in last.result :
       /\ Len(list) = 5
       /\ Cardinality(CandidatesFor(last.org, last.request.department)) = 6
       /\ list[1].suitabilityScore = list[2].suitabilityScore
       /\ list[5].suitabilityScore < list[1].suitabilityScore
       /\ \E e \in CandidatesFor(last.org, last.request.department) :
            /\ \A i \in 1..5 : list[i].employeeId # e.id
            /\ SuitabilityFor(e) < list[5].suitabilityScore

\* C20: the workload score of an employee is a function of the number n of
\* their tasks in status 'assigned' or 'in_progress': 100 when n = 0, 0 when
\* n >= 10, and 100 - 10*n otherwise; a recommendation whose workload query
\* succeeded reports round((100 - score) / 10) = min(n, 10) as currentWorkload
C20_WorkloadScore ==
  /\ \A e \in employees :
       \E n \in {ActiveTasksOf(e.id, e.organization_id)} :
         /\ calculateWorkloadScore(e.id, e.organization_id, FALSE) = WorkloadFor(n)
         /\ n = 0 => calculateWorkloadScore(e.id, e.organization_id, FALSE) = 100
         /\ n = 5 => calculateWorkloadScore(e.id, e.organization_id, FALSE) = 50
         /\ n >= 10 => calculateWorkloadScore(e.id, e.organization_id, FALSE) = 0
  /\ (/\ last.op = "recommendEmployeesForTask" /\ last.code = Returned
      /\ last.fail # "workload") =>
       \A list \in last.result : \A i \in DOMAIN list :
         \E n \in {ActiveTasksOf(list[i].employeeId, last.org)} :
           list[i].currentWorkload = IF n >= 10 THEN 10 ELSE n

\* C20 witness: a recommendation without failures lists an employee with 10
\* active tasks, one with 3 and one with none, reported as 10, 3 and 0
C20_Witness ==
  /\ last.op = "recommendEmployeesForTask" /\ last.code = Returned /\ last.fail = "none"
  /\ \E list \in last.result :
       \A n \in {0, 3, 10} :
         \E i \in DOMAIN list :
           /\ ActiveTasksOf(list[i].employeeId, last.org) = n
           /\ list[i].currentWorkload = n
           /\ calculateWorkloadScore(list[i].employeeId, last.org, FALSE) = 100 - 10 * n

\* ----------------------------------------------------- two ranked candidates
\* employee 1 has both skills, no active task, a latest stored score of 90 and
\* kA recent completions; employee 2 has none of the skills, 8 active tasks,
\* no or three recent completions and the score series sr
RankConfigs ==
  {[team |-> {EmployeeRow(1, 1, "e1@x.io", "Developer", "Engineering", {"Python", "SQL"}),
              EmployeeRow(2, 1, "e2@x.io", "Developer", "Engineering", skillsB)},
    tasks |-> Load(1, 0, kA) \cup Load(2, 8, kB),
    scores |-> SeriesRows(1, 1, <<9000>>) \cup
               {[r EXCEPT !.id = @ + 100] : r \in SeriesRows(1, 2, sr)}] :
     skillsB \in {{}, {"Rust"}}, kA \in 0..3, kB \in {0, 3},
     sr \in {<<>>, <<0>>, <<10000>>}}

InitRank ==
  /\ now = Epoch
  /\ organizations = {[id |-> 1, email |-> "a@x.io"], [id |-> 2, email |-> "b@x.io"]}
  /\ \E cfg \in RankConfigs :
       /\ employees = cfg.team
       /\ tasks = cfg.tasks
       /\ productivity_scores = cfg.scores
  /\ notifications = {}
  /\ role_requirements = {}
  /\ seq = [organizations |-> 2, employees |-> 2, tasks |-> 1000,
            scores |-> MaxScores - 1]
  /\ inflight = <<>>
  /\ last = Resp("none", 0, "", {})

NextRank ==
  \/ RecommendEmployeesForTask
  \/ InsertScoreRow

SpecRank == InitRank /\ [][NextRank]_vars

\* the employee row of a returned candidate
RowOf(id, org) == CHOOSE e \in employees : e.id = id /\ e.organization_id = org

\* C21: in a recommendation for a non-empty list of required skills, a
\* candidate with every required skill, no active task and a latest stored
\* score of 90 has a strictly higher suitabilityScore than, and stands before,
\* a candidate with none of the required skills and 8 active tasks
C21_Ranking ==
  (/\ last.op = "recommendEmployeesForTask" /\ last.code = Returned
   /\ last.request.requiredSkills # <<>>) =>
    \A list \in last.result : \A i, j \in DOMAIN list :
      \E a \in {RowOf(list[i].employeeId, last.org)},
         b \in {RowOf(list[j].employeeId, last.org)} :
        (/\ SkillsMatchFor(a.skills, last.request.requiredSkills) = 100
         /\ ActiveTasksOf(a.id, last.org) = 0
         /\ StoredOrDefault(a.id, last.org) = 9000
         /\ SkillsMatchFor(b.skills, last.request.requiredSkills) = 0
         /\ ActiveTasksOf(b.id, last.org) = 8) =>
          /\ list[i].suitabilityScore > list[j].suitabilityScore
          /\ i < j

\* C21 witness: without a failed query, the first candidate has both required
\* skills, no active task, the score 90 and no recent completion and scores 92;
\* the second has no skill, 8 active tasks, the score 100 and three recent
\* completions and scores 36
C21_Witness ==
  /\ last.op = "recommendEmployeesForTask" /\ last.code = Returned /\ last.fail = "none"
  /\ last.request.requiredSkills = <<"Python", "SQL">>
  /\ \E list \in last.result :
       /\ Len(list) = 2
       /\ list[1].skillsMatch = 100 /\ list[1].currentWorkload = 0
       /\ list[1].productivityScore = 9000
       /\ RecentCompletionsOf(list[1].employeeId, last.org) = 0
       /\ list[1].suitabilityScore = 92
       /\ list[2].skillsMatch = 0 /\ list[2].currentWorkload = 8
       /\ list[2].productivityScore = 10000
       /\ RecentCompletionsOf(list[2].employeeId, last.org) = 3
       /\ list[2].suitabilityScore = 36

\* -------------------------------------------------- validation of an assignee
\* the small team, its first employee with 0, 7 or 8 active tasks and a latest
\* stored score of 65.5 or 30; the large team without a task
ValidateConfigs ==
  {[team |-> SmallTeam, tasks |-> Load(1, n, 1) \cup Load(2, 5, 0),
    scores |-> SeriesRows(1, 1, sr)] : n \in {0, 7, 8}, sr \in {<<6550>>, <<8000, 3000>>}} \cup
  {[team |-> LargeTeam, tasks |-> {}, scores |-> SeriesRows(1, 1, <<6550>>)]}

InitValidate ==
  /\ now = Epoch
  /\ organizations = {[id |-> 1, email |-> "a@x.io"], [id |-> 2, email |-> "b@x.io"]}
  /\ \E cfg \in ValidateConfigs :
       /\ employees = cfg.team
       /\ tasks = cfg.tasks
       /\ productivity_scores = cfg.scores
  /\ notifications = {}
  /\ role_requirements = {}
  /\ seq = [organizations |-> 2, employees |-> 8, tasks |-> 1000,
            scores |-> MaxScores - 1]
  /\ inflight = <<>>
  /\ last = Resp("none", 0, "", {})

NextValidate ==
  \/ ValidateEmployeeForTask
  \/ RecommendEmployeesForTask

SpecValidate == InitValidate /\ [][NextValidate]_vars

NotFoundWarnings == <<"Employee not found or not active">>
ErrorWarnings == <<"Error validating employee">>

\* the warnings the specification gives for an employee row and the request of
\* the last response; a sub-score whose query failed counts as 50 (5 tasks)
WarningsFor(e) ==
  (IF SkillsMatchFor(e.skills, last.request.requiredSkills) < 50
   THEN <<"Employee missing most required skills">> ELSE <<>>)
  \o (IF last.fail # "workload" /\ ActiveTasksOf(e.id, last.org) >= 8
      THEN <<"Employee has high workload">> ELSE <<>>)
  \o (IF last.fail # "productivity" /\ StoredOrDefault(e.id, last.org) < 4000
      THEN <<"Employee has low productivity score">> ELSE <<>>)

\* C22: when validateEmployeeForTask finds the candidate of the employee, it
\* returns the suitabilityScore of that candidate, one warning for each of
\* skillsMatch < 50, 8 or more active tasks and productivityScore < 40 that
\* holds and no other warning, and suitable = true exactly when the
\* suitabilityScore is at least 50 and there is no warning
C22_Validation ==
  (last.op = "validateEmployeeForTask") =>
    \A out \in last.result :
      (out.warnings # NotFoundWarnings /\ out.warnings # ErrorWarnings) =>
        \E e \in CandidatesFor(last.org, last.request.department) :
          /\ e.id = last.emp
          /\ out.score = SuitabilityFor(e)
          /\ out.warnings = WarningsFor(e)
          /\ out.suitable = (out.score >= 50 /\ out.warnings = <<>>)

\* C22 witness: an employee with 8 active tasks and every required skill is
\* found with a suitabilityScore of at least 50 and the workload warning, and
\* is not suitable
C22_Witness ==
  /\ last.op = "validateEmployeeForTask" /\ last.fail = "none"
  /\ ActiveTasksOf(last.emp, last.org) = 8
  /\ \E out \in last.result :
       /\ out.score >= 50
       /\ out.warnings = <<"Employee has high workload">>
       /\ ~out.suitable

\* C30: validateEmployeeForTask answers 'Employee not found or not active' only
\* when the employee is not an active employee of the organization (of the
\* requested department when one is given); for every active employee, however
\* many others there are, it returns the suitabilityScore and the warnings of
\* that employee
C30_FoundWhenActive ==
  (last.op = "validateEmployeeForTask" /\ last.fail # "employees") =>
    \A out \in last.result :
      /\ out.warnings = NotFoundWarnings =>
           ~\E e \in CandidatesFor(last.org, last.request.department) : e.id = last.emp
      /\ \A e \in CandidatesFor(last.org, last.request.department) :
           e.id = last.emp => /\ out.score = SuitabilityFor(e)
                              /\ out.warnings = WarningsFor(e)

\* ------------------------------------------------------ password strength
RegisterBeginStrength == RegisterBeginWith(StrengthPasswords)

NextRegister ==
  \/ RegisterBeginStrength
  \/ RegisterEnd

SpecRegister == InitUnique /\ [][NextRegister]_vars

\* the message of the first rule the password fails, in the order length,
\* uppercase, lowercase, digit; "" when it fails none
FirstFailedRule(password) ==
  IF Len(password) < 8 THEN "Password must be at least 8 characters long"
  ELSE IF \A i \in DOMAIN password : password[i] \notin UpperChars
  THEN "Password must contain at least one uppercase letter"
  ELSE IF \A i \in DOMAIN password : password[i] \notin LowerChars
  THEN "Password must contain at least one lowercase letter"
  ELSE IF \A i \in DOMAIN password : password[i] \notin DigitChars
  THEN "Password must contain at least one number"
  ELSE ""

StrongPassword(password) ==
  /\ Len(password) >= 8
  /\ \E i \in DOMAIN password : password[i] \in UpperChars
  /\ \E i \in DOMAIN password : password[i] \in LowerChars
  /\ \E i \in DOMAIN password : password[i] \in DigitChars

\* C23: validatePasswordStrength answers valid = true exactly when the password
\* has at least 8 characters, an uppercase letter, a lowercase letter and a
\* digit, and otherwise valid = false with the message of the first rule that
\* fails in the order length, uppercase, lowercase, digit; a registration whose
\* password is not valid is answered 400 and stores no organization
C23_PasswordStrength ==
  [][(last'.op \in {"Register", "await"} /\ last'.request # <<>>) =>
       \A v \in last'.result :
         /\ v.valid = StrongPassword(last'.request)
         /\ v.message = FirstFailedRule(last'.request)
         /\ v.valid = (v.message = "")
         /\ ~v.valid => /\ last'.code = "400"
                        /\ organizations' = organizations
                        /\ inflight' = inflight
         /\ v.valid => last'.code # "400"]_vars

\* C23 witness: a registration with the 9 lowercase letters of 'lowercase',
\* which fail the uppercase and the digit rule, was answered 400 with the
\* uppercase message while another registration waits for its INSERT
C23_Witness ==
  /\ last.op = "Register" /\ last.code = "400"
  /\ last.request = <<"l", "o", "w", "e", "r", "c", "a", "s", "e">>
  /\ \E v \in last.result :
       v.message = "Password must contain at least one uppercase letter"
  /\ inflight # <<>>

\* ------------------------------------------------ trends of an organization
\* score histories, one record per day: none, 65 60 55 50 (declining, R2 = 1),
\* 100 100 0 1 (declining, R2 = 0.80), 100 0 90 0 (declining, R2 = 0.24),
\* 50 55 60 65 (improving) and a flat one
OrgSeries ==
  [none |-> <<>>, d100 |-> <<6500, 6000, 5500, 5000>>, d80 |-> <<10000, 10000, 0, 100>>,
   d24 |-> <<10000, 0, 9000, 0>>, up |-> <<5000, 5500, 6000, 6500>>,
   flat |-> <<7000, 7000, 7000, 7000>>]

\* the histories of the three active employees of organization 1
OrgTrendConfigs ==
  {<<"d100", "d80", "d24">>, <<"d24", "d100", "up">>, <<"up", "none", "d80">>,
   <<"d80", "d80", "d100">>, <<"flat", "up", "none">>}

\* three active employees and an inactive one with a declining history in
\* organization 1, one active employee with a declining history in organization 2
InitOrgTrend ==
  /\ now = Epoch
  /\ organizations = {[id |-> 1, email |-> "a@x.io"], [id |-> 2, email |-> "b@x.io"]}
  /\ employees =
       {EmployeeRow(i, 1, "e@x.io", "Developer", "Engineering", {}) : i \in 1..3} \cup
       {[EmployeeRow(4, 1, "e4@x.io", "Developer", "Engineering", {})
           EXCEPT !.is_active = FALSE],
        EmployeeRow(5, 2, "e5@x.io", "Developer", "Engineering", {})}
  /\ tasks = {}
  /\ \E cfg \in OrgTrendConfigs :
       productivity_scores =
         UNION {{[r EXCEPT !.id = @ + 100 * i] : r \in SeriesRows(1, i, OrgSeries[cfg[i]])} :
                  i \in 1..3} \cup
         {[r EXCEPT !.id = @ + 400] : r \in SeriesRows(1, 4, OrgSeries.d100)} \cup
         {[r EXCEPT !.id = @ + 500] : r \in SeriesRows(2, 5, OrgSeries.d100)}
  /\ notifications = {}
  /\ role_requirements = {}
  /\ seq = [organizations |-> 2, employees |-> 5, tasks |-> 0, scores |-> 600]
  /\ inflight = <<>>
  /\ last = Resp("none", 0, "", {})

NextOrgTrend ==
  \/ PredictOrganizationTrends
  \/ GetEmployeesAtRisk

SpecOrgTrend == InitOrgTrend /\ [][NextOrgTrend]_vars

\* the trend predictPerformanceTrend gives for the employee under the
\* conditions of the last request
TrendOf(emp) ==
  Only(predictPerformanceTrend(emp, last.org, last.fail, last.request.numericAsText,
                               last.request.zeroTruthy).result)

ActiveIds(org) == {e.id : e \in {x \in employees : x.organization_id = org /\ x.is_active}}

IsDeclining(trend) == trend.trend = "declining"

GapsOfRow(employee, fail) ==
  Only({[i \in DOMAIN missing |-> [skill |-> missing[i].skill,
                                   priority |-> missing[i].priority,
                                   role |-> employee.role]] :
          missing \in {MissingSkills(employee.skills, employee.role, requiredSkills) :
                         requiredSkills \in getRoleRequirements(employee.role, fail)}})

RECURSIVE GapsOfRows(_, _)
GapsOfRows(rows, fail) ==
  IF rows = <<>> THEN <<>>
  ELSE GapsOfRow(Head(rows), fail) \o GapsOfRows(Tail(rows), fail)

\* skillGapMap after the gaps were entered: one entry per skill in the order of
\* first entry, with the count, the roles in the order they were added and the
\* most severe priority
RECURSIVE FillGapMap(_, _)
FillGapMap(map, gaps) ==
  IF gaps = <<>> THEN map
  ELSE LET g == Head(gaps)
           known == \E i \in DOMAIN map : map[i].skill = g.skill
           started == IF known THEN map
                      ELSE Append(map, [skill |-> g.skill, employeesMissing |-> 0,
                                        priority |-> g.priority, affectedRoles |-> <<>>])
           k == CHOOSE i \in DOMAIN started : started[i].skill = g.skill
           entry == started[k]
           roles == IF \E i \in DOMAIN entry.affectedRoles : entry.affectedRoles[i] = g.role
                    THEN entry.affectedRoles ELSE Append(entry.affectedRoles, g.role)
       IN FillGapMap([started EXCEPT ![k] =
                        [skill |-> entry.skill,
                         employeesMissing |-> entry.employeesMissing + 1,
                         priority |-> IF priorityOrder[g.priority] < priorityOrder[entry.priority]
                                      THEN g.priority ELSE entry.priority,
                         affectedRoles |-> roles]],
                     Tail(gaps))

\* mutant: the comparator looks at the priority alone
GapCompare_PriorityOnly(a, b) ==
  priorityOrder[a.priority] - priorityOrder[b.priority]

\* the comparator of organizationGaps.sort
GapCompare(a, b) ==
  IF priorityOrder[a.priority] - priorityOrder[b.priority] # 0
  THEN priorityOrder[a.priority] - priorityOrder[b.priority]
  ELSE b.employeesMissing - a.employeesMissing

\* organizationGaps.sort(comparator): a stable sort
RECURSIVE SortGaps(_)
SortGaps(gaps) ==
  IF gaps = <<>> THEN <<>>
  ELSE LET first == CHOOSE i \in DOMAIN gaps :
                      /\ \A j \in DOMAIN gaps : GapCompare(gaps[i], gaps[j]) <= 0
                      /\ \A j \in 1..(i - 1) : GapCompare(gaps[i], gaps[j]) < 0
       IN <<gaps[first]>> \o
          SortGaps([j \in 1..(Len(gaps) - 1) |-> IF j < first THEN gaps[j] ELSE gaps[j + 1]])

OrgGapFailures == {"none", "employees", "requirements"}

\* calculateOrganizationSkillGaps over the rows of the active employees in the
\* order the store returned them
calculateOrganizationSkillGaps(rows, fail) ==
  IF fail = "employees" THEN [code |-> Thrown, result |-> {}]
  ELSE [code |-> Returned,
        result |-> {SortGaps(FillGapMap(<<>>, GapsOfRows(rows, fail = "requirements")))}]

CalculateOrganizationSkillGaps ==
  \E org \in OrgIds, fail \in OrgGapFailures :
    \E rows \in RowOrders(Candidates(org, {})) :
      \E out \in {calculateOrganizationSkillGaps(rows, fail)} :
        /\ last' = [Resp("calculateOrganizationSkillGaps", org, out.code,
                         IF out.code = Thrown \/ rows = <<>> THEN {} ELSE {org})
                    EXCEPT !.result = out.result,
                           !.fail = IF out.code = Thrown THEN fail ELSE "none"]
        /\ UNCHANGED <<tables, seq, now, inflight, role_requirements>>

\* the skill sets an update gives an employee
OrgGapSkillSets ==
  {{}, {"JavaScript"}, {"javascript", "React", "SQL"},
   {"JavaScript", "Node.js", "React", "SQL", "API Design"}}

\* a frontend developer without skills, a full stack developer who misses
\* React, a data scientist or an accountant, an inactive backend developer,
\* and a frontend developer of organization 2
InitOrgSkill ==
  /\ now = Epoch
  /\ organizations = {[id |-> 1, email |-> "a@x.io"], [id |-> 2, email |-> "b@x.io"]}
  /\ \E role \in {"Data Scientist", "Accountant"} :
       employees =
         {EmployeeRow(1, 1, "e1@x.io", "Frontend Developer", "Engineering", {}),
          EmployeeRow(2, 1, "e2@x.io", "Full Stack Developer", "Engineering",
                      {"JavaScript", "Node.js", "SQL", "API Design"}),
          EmployeeRow(3, 1, "e3@x.io", role, "Engineering", {"Python"}),
          [EmployeeRow(4, 1, "e4@x.io", "Backend Developer", "Engineering", {})
             EXCEPT !.is_active = FALSE],
          EmployeeRow(5, 2, "e5@x.io", "Frontend Developer", "Engineering", {})}
  /\ tasks = {}
  /\ productivity_scores = {}
  /\ notifications = {}
  /\ role_requirements = {}
  /\ seq = [organizations |-> 2, employees |-> 5, tasks |-> 0, scores |-> 0]
  /\ inflight = <<>>
  /\ last = Resp("none", 0, "", {})

EmployeeUpdateOrgSkills == EmployeeUpdateWith({}, OrgGapSkillSets)

NextOrgSkill ==
  \/ CalculateOrganizationSkillGaps
  \/ EmployeeUpdateOrgSkills

SpecOrgSkill == InitOrgSkill /\ [][NextOrgSkill]_vars

ActiveRows(org) == {e \in employees : e.organization_id = org /\ e.is_active}

\* the active employees whose role requires the skill and who lack it
EmployeesMissing(org, skill) ==
  {e \in ActiveRows(org) :
     \E i \in MissingOf(e.skills, RequiredSkillsOf(e.role)) :
       RequiredSkillsOf(e.role)[i] = skill}

\* the number of missing skills calculateEmployeeSkillGap reports for the row
MissingCountOf(e) ==
  Only({Len(r.missingSkills) :
          r \in UNION {out.result :
                         out \in calculateEmployeeSkillGap(e.id, e.organization_id, "none")}})

RECURSIVE SumOver(_, _)
SumOver(f, S) ==
  IF S = {} THEN 0
  ELSE LET x == CHOOSE y \in S : TRUE IN f[x] + SumOver(f, S \ {x})

\* C25: calculateOrganizationSkillGaps returns one entry per skill that an
\* active employee misses; employeesMissing counts the active employees whose
\* role requires the skill and who lack it, priority is the most severe
\* priority of the skill, affectedRoles are the roles of those employees; the
\* entries are ordered by priority and, within a priority, by employeesMissing
\* descending; the sum of employeesMissing equals the sum of the missing-skill
\* counts calculateEmployeeSkillGap reports for the active employees
C25_OrganizationGaps ==
  (last.op = "calculateOrganizationSkillGaps" /\ last.code = Returned) =>
    \A list \in last.result :
      LET skills == {s \in UNION {{RequiredSkillsOf(e.role)[i] :
                                     i \in DOMAIN RequiredSkillsOf(e.role)} :
                                    e \in ActiveRows(last.org)} :
                       EmployeesMissing(last.org, s) # {}}
      IN /\ {list[i].skill : i \in DOMAIN list} = skills
         /\ Len(list) = Cardinality(skills)
         /\ \A i \in DOMAIN list :
              \E missing \in {EmployeesMissing(last.org, list[i].skill)} :
                /\ list[i].employeesMissing = Cardinality(missing)
                /\ {list[i].affectedRoles[k] : k \in DOMAIN list[i].affectedRoles}
                     = {e.role : e \in missing}
                /\ Len(list[i].affectedRoles) = Cardinality({e.role : e \in missing})
                /\ \A e \in missing :
                     priorityOrder[list[i].priority]
                       <= priorityOrder[determineSkillPriority(list[i].skill, e.role,
                                                               RequiredSkillsOf(e.role))]
                /\ \E e \in missing :
                     list[i].priority = determineSkillPriority(list[i].skill, e.role,
                                                               RequiredSkillsOf(e.role))
         /\ \A i, j \in DOMAIN list :
              i < j =>
                /\ priorityOrder[list[i].priority] <= priorityOrder[list[j].priority]
                /\ list[i].priority = list[j].priority =>
                     list[i].employeesMissing >= list[j].employeesMissing
         /\ SumOver([i \in DOMAIN list |-> list[i].employeesMissing], DOMAIN list)
              = SumOver([e \in ActiveRows(last.org) |-> MissingCountOf(e)],
                        ActiveRows(last.org))

\* C25 witness: React, missed by the frontend and the full stack developer,
\* stands before JavaScript, missed by the frontend developer alone, although
\* JavaScript entered the map first; both are critical
C25_Witness ==
  /\ last.op = "calculateOrganizationSkillGaps" /\ last.code = Returned
  /\ \E list \in last.result :
       \E i, j \in DOMAIN list :
         /\ i < j
         /\ list[i].skill = "React" /\ list[i].employeesMissing = 2
         /\ Len(list[i].affectedRoles) = 2
         /\ list[j].skill = "JavaScript" /\ list[j].employeesMissing = 1
         /\ list[i].priority = "critical" /\ list[j].priority = "critical"

\* ------------------------------------------- concurrent updateStatus requests
\* an updateStatus request between its SELECT and its UPDATE: the status it
\* asked for and the assignee it read
PendingStatus(org, id, status, assignedTo) ==
  [op |-> "TaskUpdateStatus", org |-> org, id |-> id, email |-> {},
   status |-> status, assignedTo |-> assignedTo]

\* TaskController.updateStatus up to the UPDATE: the validations, the SELECT of
\* the current status and the check of the transition
TaskUpdateStatusBegin ==
  \E token \in Tokens, id \in TaskIds, status \in StatusInputs :
    \E org \in authenticateToken(token) :
      LET currentTask == TaskInOrg(id, org)
      IN /\ Len(inflight) < MaxInflight
         /\ IF ~updateStatusValidation(status) \/ ~isValidStatus(status)
            THEN /\ last' = StatusResp(org, "400", {}, id, status)
                 /\ UNCHANGED inflight
            ELSE IF currentTask = {}
            THEN /\ last' = StatusResp(org, "404", {}, id, status)
                 /\ UNCHANGED inflight
            ELSE LET t == CHOOSE t \in currentTask : TRUE
                 IN IF ~isValidTransition(t.status, status)
                    THEN /\ last' = StatusResp(org, "400", {}, id, status)
                         /\ UNCHANGED inflight
                    ELSE /\ inflight' = Append(inflight,
                               PendingStatus(org, id, status, t.assigned_to))
                         /\ last' = [Resp("await", org, "", {})
                                     EXCEPT !.id = id, !.status = status]
         /\ UNCHANGED <<tables, seq, now, role_requirements>>

\* the UPDATE of a pending updateStatus request, the notification and the response
TaskUpdateStatusEnd ==
  \E i \in DOMAIN inflight :
    /\ inflight[i].op = "TaskUpdateStatus"
    /\ TaskStatusWrite(inflight[i].org, inflight[i].id, inflight[i].status,
                       inflight[i].assignedTo)
    /\ inflight' = Remove(inflight, i)
    /\ UNCHANGED <<organizations, employees, productivity_scores,
                   seq, now, role_requirements>>

\* organization 1 has two employees and one task, just created
InitRace ==
  /\ now = Epoch
  /\ organizations = {[id |-> 1, email |-> "a@x.io"], [id |-> 2, email |-> "b@x.io"]}
  /\ employees = {EmployeeRow(1, 1, "a@x.io", "Developer", "Engineering", {"Python"}),
                  EmployeeRow(2, 1, "b@x.io", "Developer", "Engineering", {"Python"})}
  /\ tasks = {TaskRow(1, 1, 1, "low")}
  /\ productivity_scores = {}
  /\ notifications = {NotificationRow(1, 1, "task_assigned")}
  /\ role_requirements = {}
  /\ seq = [organizations |-> 2, employees |-> 2, tasks |-> 1, scores |-> 0]
  /\ inflight = <<>>
  /\ last = Resp("none", 0, "", {})

NextRace ==
  \/ TaskUpdateStatusBegin
  \/ TaskUpdateStatusEnd
  \/ TaskUpdate
  \/ Tick

SpecRace == InitRace /\ [][NextRace]_vars

\* C26 (as stated): under every interleaving of updateStatus requests, a task
\* whose status is 'completed' keeps that status in every later state
C26_CompletedIsTerminal ==
  [][\A t \in tasks, u \in tasks' :
       (t.id = u.id /\ t.status = "completed") => u.status = "completed"]_vars

\* C27 (as stated): completed_at is empty until the update that first makes
\* the status 'completed', that update sets it, and no later request changes it
C27_CompletedAtSetOnce ==
  [][\A t \in tasks, u \in tasks' : t.id = u.id =>
       /\ (t.completed_at = NULL /\ u.status # "completed") => u.completed_at = NULL
       /\ (t.status # "completed" /\ u.status = "completed" /\ t.completed_at = NULL)
            => u.completed_at = now
       /\ t.completed_at # NULL => u.completed_at = t.completed_at]_vars

\* ------------------------------------------------ the age of a returned score
\* the rows getLatestScore can answer with before the request
StoredLatest(org, emp) == LatestScoreRows(org, emp)

\* no stored record, or the latest one is more than an hour older than the request
Expired(org, emp) ==
  \/ StoredLatest(org, emp) = {}
  \/ \A r \in StoredLatest(org, emp) : now - r.calculated_at > ONE_HOUR

\* C28: getProductivityScore for an existing employee appends one record,
\* calculated at the time of the request, and returns it exactly when the
\* employee has no stored record or the latest one is more than an hour old;
\* otherwise it appends nothing and returns the latest stored record; the
\* record returned is never more than an hour older than the request
C28_RecalculationAfterOneHour ==
  [][(/\ last'.op = "GetProductivityScore"
      /\ EmployeeInOrg(last'.emp, last'.org) # {}) =>
       /\ last'.code = Returned
       /\ Cardinality(last'.result) = 1
       /\ Expired(last'.org, last'.emp) =>
            /\ productivity_scores \subseteq productivity_scores'
            /\ Cardinality(productivity_scores' \ productivity_scores) = 1
            /\ \A r \in productivity_scores' \ productivity_scores :
                 /\ r.calculated_at = now
                 /\ r.organization_id = last'.org /\ r.employee_id = last'.emp
                 /\ last'.result = {RowToScore(r)}
       /\ ~Expired(last'.org, last'.emp) =>
            /\ productivity_scores' = productivity_scores
            /\ last'.result \subseteq
                 {RowToScore(r) : r \in StoredLatest(last'.org, last'.emp)}
       /\ \A sc \in last'.result :
            sc.calculatedAt <= now /\ now - sc.calculatedAt <= ONE_HOUR]_vars

\* C28 witness: a record calculated two hours before the request was replaced
\* as the latest by a new one, calculated at the time of the request
C28_Witness ==
  /\ last.op = "GetProductivityScore" /\ last.code = Returned
  /\ \E sc \in last.result : sc.calculatedAt = now
  /\ \E r \in productivity_scores :
       /\ r.employee_id = last.emp /\ r.organization_id = last.org
       /\ now - r.calculated_at > ONE_HOUR
  /\ Cardinality({r \in productivity_scores : r.employee_id = last.emp}) = 2

\* --------------------------------------------- concurrent calculateScore calls
\* a calculateScore call between building its record and storeScore
PendingScore(org, score) ==
  [op |-> "calculateScore", org |-> org, id |-> score.employeeId, email |-> {},
   score |-> score]

\* calculateScore up to storeScore: the aggregate query over the tasks and the
\* record built from it, with calculatedAt = new Date()
CalculateScoreBegin ==
  \E org \in OrgIds, emp \in EmployeeIds :
    /\ EmployeeInOrg(emp, org) # {}
    /\ Len(inflight) < MaxInflight
    /\ \E score \in {Only({ComputeScore(taskData, emp) :
                            taskData \in {TaskData(org, emp)}})} :
         /\ inflight' = Append(inflight, PendingScore(org, score))
         /\ last' = [Resp("await", org, "", {}) EXCEPT !.emp = emp, !.computed = {score}]
    /\ UNCHANGED <<tables, seq, now, role_requirements>>

\* storeScore of a pending call: the INSERT, and the record returned or the
\* error thrown
CalculateScoreEnd ==
  \E i \in DOMAIN inflight :
    /\ inflight[i].op = "calculateScore"
    /\ \E org \in {inflight[i].org}, score \in {inflight[i].score} :
         IF StoreScoreOk(productivity_scores, org, score)
         THEN /\ seq.scores < MaxScores
              /\ productivity_scores' =
                   StoreScore(productivity_scores, seq.scores + 1, org, score)
              /\ seq' = [seq EXCEPT !.scores = @ + 1]
              /\ last' = [Resp("calculateScore", org, Returned, {org}) EXCEPT
                            !.emp = score.employeeId, !.computed = {score},
                            !.result = {score}]
         ELSE /\ last' = [Resp("calculateScore", org, Thrown, {}) EXCEPT
                            !.emp = score.employeeId, !.computed = {score}]
              /\ UNCHANGED <<productivity_scores, seq>>
    /\ inflight' = Remove(inflight, i)
    /\ UNCHANGED <<organizations, employees, tasks, notifications, now, role_requirements>>

InitConcurrent == InitWith(FailHistories, {{}})

NextConcurrent ==
  \/ CalculateScoreBegin
  \/ CalculateScoreEnd
  \/ GetLatestScore
  \/ Tick

SpecConcurrent == InitConcurrent /\ [][NextConcurrent]_vars

\* C29 (as stated): every calculateScore call that overlaps another one
\* succeeds and appends its own record, also when both took the same
\* timestamp, and getLatestScore returns a record whose calculatedAt is the
\* greatest of the employee's history
C29_ConcurrentAppends ==
  [][/\ last'.op = "calculateScore" =>
          /\ last'.code = Returned
          /\ Cardinality(productivity_scores') = Cardinality(productivity_scores) + 1
     /\ (last'.op = "getLatestScore" /\ last'.code = Returned) =>
          /\ (last'.result = {}) = (LatestScoreRows(last'.org, last'.emp) = {})
          /\ \A sc \in last'.result :
               \A r \in productivity_scores :
                 (r.organization_id = last'.org /\ r.employee_id = last'.emp)
                   => r.calculated_at <= sc.calculatedAt]_vars

====
